---- MODULE Spec2Model ----
(***************************************************************************)
(* SysLens ingestion-and-control pipeline.                                 *)
(*                                                                         *)
(*  SpecIngest   : metrics ingest at the aggregator, the forwarder and the *)
(*                 control-plane metrics handler behind it.                *)
(*  SpecRequests : metrics requests to both tiers, with every envelope.    *)
(*  SpecSessions : the aggregator session table and its sweeper.           *)
(*  SpecCatalog  : control-plane node catalog (nodes, node_groups,         *)
(*                 services) on PostgreSQL, registration, token validation.*)
(***************************************************************************)
EXTENDS Integers, Sequences, FiniteSets, TLC

VARIABLES
    now,          \* wall clock (time.Now), in ticks
    connections,  \* aggregator Server.connections.nodes : node_id -> NodeConnection
    data,         \* aggregator DataProcessor.metrics.data : node_id -> metrics map
    hbPending,    \* heartbeat handlers between updateNodeActivity and registerOrUpdateNode
    fwdPc,        \* forwarder goroutine position: "idle" | "forwarding"
    snapshot,     \* metricsSnapshot of the running processMetricsData call
    seen,         \* per node, what had been ingested when the snapshot was taken
    ticks,        \* number of forwarder ticks started
    post,         \* the POST the forwarder sends upstream in this step (NoPost: none)
    posted,       \* per node, the tick of its latest POST and the ingests that POST covered
    ingested,     \* per node, the ingests done: their number, the last map, the payload before
    accepted,     \* per node, the control plane answered 200 to ValidateNode since the session began
    aggResp,      \* response the aggregator ingest server gives in this step (NoResp: none)
    tsdb,         \* control-plane MetricsStorage: sequence of stored entries
    cpReq,        \* metrics request the control plane receives in this step (NoRequest: none)
    cpResp,       \* status code the control plane answers to cpReq
    direct,       \* number of metrics requests sent to the control plane by other clients
    nodes,        \* catalog table nodes : id -> row
    node_groups,  \* catalog table node_groups : set of ids
    services,     \* catalog table services : set of ids
    reg,          \* HandleRegisterNodeGin calls between GetByID and Create/Update
    tx,           \* open delete transactions of the group/service repositories
    issued,       \* per node, the cleartext token most recently issued
    catResp,      \* last response of a catalog operation
    ops,          \* number of catalog operations started
    cfg,          \* security configuration of the aggregator and of the control plane
    mu,           \* aggregator mutexes: for metrics and connections, the goroutines holding it
    inflight,     \* goroutines of the aggregator that are in network I/O
    swept,        \* what a sweeper deletes in this step ({}: none fires)
    nodesData,    \* ControlPlaneServer.nodes.data : node id -> NodeInfo
    groupsData,   \* ControlPlaneServer.groups.data : group id -> GroupInfo
    servicesData, \* ControlPlaneServer.services.data : service id -> ServiceInfo
    agentCfg,     \* the agent's configuration after loadConfig, and its flags
    agent,        \* the agent process: where it is, its clock, the sample at hand
    wire,         \* the metrics POST the agent sends in this step (NoWire: none)
    failed_reports, \* tmp/failed_reports of the agent: file name -> sample
    errChans,     \* per StoreMetrics call, the errors the goroutine it started holds
    collector,    \* the agent's collector: lastNetworkStats, lastCollectTime
    netStats,     \* stats.Network.Interfaces of the latest Collect
    life,         \* root contexts, workers and Shutdown calls of the two servers
    configuration, \* column configuration (JSONB) of table nodes : id -> cell
    repoCall      \* the call of the node repository made in this step (NoCall: none)

ingestVars == <<now, connections, data, hbPending, fwdPc, snapshot, seen, ticks, post, posted,
                ingested, accepted, aggResp, tsdb, cpReq, cpResp, direct, cfg>>
catalogVars == <<nodes, node_groups, services, reg, tx, issued, catResp, ops>>
lockVars == <<mu, inflight>>
registryVars == <<nodesData, groupsData, servicesData>>
agentVars == <<agentCfg, agent, wire, failed_reports>>
procVars == <<collector, netStats, life, configuration, repoCall>>
otherVars == <<lockVars, swept, registryVars, agentVars, procVars, errChans>>
vars == <<now, connections, data, hbPending, fwdPc, snapshot, seen, ticks, post, posted,
          ingested, accepted, aggResp, tsdb, cpReq, cpResp, direct,
          nodes, node_groups, services, reg, tx, issued, catResp, ops, cfg, mu, inflight, swept,
          nodesData, groupsData, servicesData, agentCfg, agent, wire, failed_reports,
          errChans, collector, netStats, life, configuration, repoCall>>

----------------------------------------------------------------------------
(* Bounds *)

MaxTime == 2
MaxIngest == 2
MaxTicks == 2
MaxDirect == 1
MaxOps == 4

Nodes == {"node-A", "node-B"}
Payloads == {"p1", "p2"}

----------------------------------------------------------------------------
(* Envelope codec: internal/common/utils (EncryptionService, gzip helpers) *)

KeySize == 32

Zeros(n) == [i \in 1..n |-> 0]

\* key normalisation of Encrypt/Decrypt: right-pad with zeros or truncate to 32 bytes
NormalizeKey(key) ==
    IF Len(key) < KeySize THEN key \o Zeros(KeySize - Len(key))
    ELSE IF Len(key) > KeySize THEN SubSeq(key, 1, KeySize)
    ELSE key

\* a metrics map: the agent's sample and the stamps added on the way; a stamp
\* is the set of the values its key holds: empty while the key is absent
Absent == {}
NilMap == [payload |-> "nil", aggregator_received_at |-> Absent, processed_at |-> Absent]
Sample(p) == [payload |-> p, aggregator_received_at |-> Absent, processed_at |-> Absent]

\* byte strings are modelled by their structure
JsonObject(p) == [k |-> "json", v |-> p]          \* JSON text of an object
JsonNull      == [k |-> "jsonnull", v |-> "null"] \* the JSON text null
Garbage       == [k |-> "garbage", v |-> "x"]     \* neither JSON, gzip nor Base64
Gzip(d)       == [k |-> "gzip", v |-> d]          \* gzip stream of d
Sealed(d, key32, intact) ==                       \* nonce || ciphertext || tag
    [k |-> "sealed", v |-> [key |-> key32, intact |-> intact, d |-> d]]
Short         == [k |-> "short", v |-> "x"]       \* fewer bytes than a nonce
Base64(d)     == [k |-> "b64", v |-> d]           \* Base64 text of d

Failure == [k |-> "error", v |-> "error"]
IsErr(d) == d.k = "error"

\* EncryptionService.Encrypt
Encrypt(d, key) ==
    IF Len(key) = 0 THEN d
    ELSE Base64(Sealed(d, NormalizeKey(key), TRUE))

\* EncryptionService.Decrypt
Decrypt(d, key) ==
    IF Len(key) = 0 THEN d
    ELSE IF d.k # "b64" THEN Failure
    ELSE IF d.v.k = "short" THEN Failure
    ELSE IF d.v.k # "sealed" THEN Failure
    ELSE IF d.v.v.key # NormalizeKey(key) \/ ~d.v.v.intact THEN Failure
    ELSE d.v.v.d

\* CompressData
CompressData(d) == Gzip(d)

\* DecompressData handing back its input when it is no gzip stream
DecompressDataLenient(d) == IF d.k = "gzip" THEN d.v ELSE d

\* DecompressData
DecompressData(d) == IF d.k = "gzip" THEN d.v ELSE Failure

\* json.Unmarshal into map[string]interface{}: "ok" with a map, "nil" for the
\* text null (no error, the map stays nil), "error" otherwise
JsonUnmarshal(d) ==
    IF d.k = "json" THEN [r |-> "ok", m |-> d.v]
    ELSE IF d.k = "jsonnull" THEN [r |-> "nil", m |-> NilMap]
    ELSE [r |-> "error", m |-> NilMap]

\* json.Marshal of a metrics map
JsonMarshal(m) == JsonObject(m)

----------------------------------------------------------------------------
(* Configuration *)

ConnectionTimeout == 1      \* server.connection_timeout, in ticks of the clock
NodeExpiry == 1             \* discovery.node_expiry, in ticks of the clock

AgentKey == <<7>>           \* security.encryption.key shared by agent and aggregator
WrongKey == <<9>>
LongKey  == <<7>> \o Zeros(KeySize)   \* 33 bytes: truncates to the normalised AgentKey

AggKey == AgentKey
CPKey == AgentKey

\* security.encryption.enabled / security.compression.enabled of both tiers
Configs ==
    { [aggEnc |-> TRUE,  aggCmp |-> TRUE,  cpEnc |-> TRUE,  cpCmp |-> TRUE],
      [aggEnc |-> FALSE, aggCmp |-> FALSE, cpEnc |-> FALSE, cpCmp |-> FALSE] }

CPToken == "cp-token"               \* control_plane.token, the bearer shared with aggregators
Bearers == {CPToken, "wrong", ""}   \* "" stands for a request without Authorization
AggregatorIDs == {"aggregator-1", ""}

\* statuses the control plane (or the transport, 0) may give to ValidateNode
ValidateStatuses == {200, 201, 401, 404, 0}

\* request bodies an agent or any other client may send, with their headers
Plain(p) == JsonObject(Sample(p))
Requests ==
    { [enc |-> FALSE, cmp |-> FALSE, body |-> Plain(p)] : p \in Payloads }
    \cup
    { [enc |-> FALSE, cmp |-> TRUE,  body |-> CompressData(Plain("p1"))],
      [enc |-> TRUE,  cmp |-> FALSE, body |-> Encrypt(Plain("p1"), AgentKey)],
      [enc |-> TRUE,  cmp |-> TRUE,  body |-> Encrypt(CompressData(Plain("p2")), AgentKey)],
      [enc |-> TRUE,  cmp |-> TRUE,  body |-> Encrypt(CompressData(Plain("p2")), LongKey)],
      \* one byte of the ciphertext flipped
      [enc |-> TRUE,  cmp |-> TRUE,
       body |-> Base64(Sealed(CompressData(Plain("p1")), NormalizeKey(AgentKey), FALSE))],
      [enc |-> TRUE,  cmp |-> FALSE, body |-> Encrypt(Plain("p1"), WrongKey)],
      [enc |-> TRUE,  cmp |-> FALSE, body |-> Base64(Short)],
      [enc |-> TRUE,  cmp |-> FALSE, body |-> Plain("p1")],
      [enc |-> FALSE, cmp |-> TRUE,  body |-> Plain("p1")],
      [enc |-> FALSE, cmp |-> FALSE, body |-> Garbage],
      [enc |-> FALSE, cmp |-> FALSE, body |-> JsonNull] }

----------------------------------------------------------------------------
(* Aggregator ingest server: internal/aggregator/server.go *)

NodeConnection(nodeID, status, verified, connectedAt, lastActive) ==
    [NodeID |-> nodeID, Status |-> status, Verified |-> verified,
     ConnectedAt |-> connectedAt, LastActive |-> lastActive]

\* what the bytes of a request are to a tier that decrypts and decompresses as
\* given: malformed if the ciphertext is no Base64 text, too short or fails its
\* tag, if the compressed bytes are no gzip stream, or if what is left is no
\* JSON text
Malformed(req, decrypts, decompresses) ==
    LET sealedOK == /\ req.body.k = "b64"
                    /\ req.body.v.k = "sealed"
                    /\ req.body.v.v.intact
                    /\ req.body.v.v.key = NormalizeKey(AgentKey)
        d1 == IF decrypts /\ sealedOK THEN req.body.v.v.d ELSE req.body
        gzipOK == d1.k = "gzip"
        d2 == IF decompresses /\ gzipOK THEN d1.v ELSE d1
    IN  \/ decrypts /\ ~sealedOK
        \/ decompresses /\ ~gzipOK
        \/ d2.k \notin {"json", "jsonnull"}

NoIngest == [count |-> 0, last |-> NilMap, prev |-> ""]
NoPost == [node |-> "", metrics |-> NilMap]
NeverPosted == [tick |-> 0, count |-> 0]

NoResp == [op |-> "none", code |-> 0, malformed |-> FALSE]
Resp(op, malformed, code) == [op |-> op, code |-> code, malformed |-> malformed]
NoRequest == [node |-> "", bearer |-> "", aggregator |-> "", malformed |-> FALSE]

\* answer of the catalog operation that ends in this step (NoCatalogResp: none)
NoCatalogResp == [op |-> "none", ok |-> FALSE, node |-> "", token |-> "", name |-> ""]
CatalogResp(op, ok, node, token, name) ==
    [op |-> op, ok |-> ok, node |-> node, token |-> token, name |-> name]

\* the step is no request to the aggregator / to the control plane
NoAggregatorRequest == aggResp' = NoResp
NoControlPlaneRequest == cpReq' = NoRequest /\ cpResp' = 0 /\ post' = NoPost
NoSweep == swept' = {}

\* registerOrUpdateNode writing the flag it is given into an existing entry
registerOrUpdateNodeAssign(conns, nodeID, verified) ==
    IF nodeID \in DOMAIN conns
    THEN [conns EXCEPT ![nodeID] =
            [@ EXCEPT !.LastActive = now, !.Status = "active", !.Verified = verified]]
    ELSE [n \in DOMAIN conns \cup {nodeID} |->
            IF n = nodeID
            THEN NodeConnection(nodeID, "connected", verified, now, now)
            ELSE conns[n]]

\* Server.registerOrUpdateNode: the session table after the call
registerOrUpdateNode(conns, nodeID, verified) ==
    IF nodeID \in DOMAIN conns
    THEN [conns EXCEPT ![nodeID] =
            [@ EXCEPT !.LastActive = now, !.Status = "active",
                      !.Verified = IF verified THEN TRUE ELSE @]]
    ELSE [n \in DOMAIN conns \cup {nodeID} |->
            IF n = nodeID
            THEN NodeConnection(nodeID, "connected", verified, now, now)
            ELSE conns[n]]

\* Server.updateNodeActivity: the session table after the call
updateNodeActivity(conns, nodeID) ==
    IF nodeID \in DOMAIN conns
    THEN [conns EXCEPT ![nodeID] = [@ EXCEPT !.LastActive = now, !.Status = "active"]]
    ELSE conns

\* ControlPlaneClient.ValidateNode: nil error only for status 200
ValidateNodeOK(status) == status = 200

\* Server.processIncomingData
processIncomingData(c, req) ==
    LET d1 == IF req.enc
              THEN IF ~c.aggEnc THEN Failure ELSE Decrypt(req.body, AggKey)
              ELSE req.body
    IN  IF IsErr(d1) THEN Failure
        ELSE IF req.cmp THEN DecompressData(d1)
        ELSE d1

\* ProcessMetrics keeping the entry a node already has
ProcessMetricsKeepFirst(buf, nodeID, metrics) ==
    [n \in DOMAIN buf \cup {nodeID} |-> IF n \in DOMAIN buf THEN buf[n] ELSE metrics]

\* DataProcessor.ProcessMetrics: the buffer after the call
ProcessMetrics(buf, nodeID, metrics) ==
    [n \in DOMAIN buf \cup {nodeID} |-> IF n = nodeID THEN metrics ELSE buf[n]]

Ingests == LET RECURSIVE Sum(_)
               Sum(S) == IF S = {} THEN 0
                         ELSE LET n == CHOOSE x \in S : TRUE
                              IN  ingested[n].count + Sum(S \ {n})
           IN  Sum(Nodes)

\* Server.handleNodeRegister
handleNodeRegister(n, status) ==
    /\ IF ValidateNodeOK(status)
       THEN /\ connections' = registerOrUpdateNode(connections, n, TRUE)
            /\ aggResp' = Resp("register", FALSE, 200)
       ELSE /\ aggResp' = Resp("register", FALSE, 401)
            /\ UNCHANGED connections
    /\ accepted' = [accepted EXCEPT ![n] = @ \/ status = 200]
    /\ UNCHANGED <<now, data, hbPending, fwdPc, snapshot, seen, ticks, posted, ingested,
                   tsdb, direct, cfg>>
    /\ NoControlPlaneRequest
    /\ UNCHANGED <<catalogVars, lockVars, registryVars, agentVars, procVars, errChans>>
    /\ NoSweep

\* authMiddleware answering 401 for a node without a verified session
authMiddlewareStrict(conns, nodeID) ==
    IF nodeID = "" THEN 400
    ELSE IF nodeID \notin DOMAIN conns THEN 401
    ELSE IF ~conns[nodeID].Verified THEN 401
    ELSE 0

\* Server.authMiddleware: the status it aborts the request with, 0 where it
\* calls c.Next() (a node without a session or not verified is only logged)
authMiddleware(conns, nodeID) ==
    IF nodeID = "" THEN 400 ELSE 0

\* Server.handleNodeMetrics behind Server.authMiddleware
handleNodeMetrics(n, req) ==
    LET conns1 == updateNodeActivity(connections, n)
        processed == processIncomingData(cfg, req)
        parsed == IF IsErr(processed) THEN [r |-> "error", m |-> NilMap]
                  ELSE JsonUnmarshal(processed)
        metrics == [parsed.m EXCEPT !.aggregator_received_at = {now}]
        bad == Malformed(req, req.enc /\ cfg.aggEnc, req.cmp)
    IN  /\ IF authMiddleware(connections, n) # 0
           THEN /\ aggResp' = Resp("metrics", bad, authMiddleware(connections, n))
                /\ UNCHANGED <<connections, data, ingested>>
           ELSE IF IsErr(processed) \/ parsed.r = "error"
           THEN /\ connections' = conns1
                /\ aggResp' = Resp("metrics", bad, 400)
                /\ UNCHANGED <<data, ingested>>
           ELSE IF parsed.r = "nil"
           THEN \* assignment to a nil map panics; gin.Recovery answers 500
                /\ connections' = conns1
                /\ aggResp' = Resp("metrics", bad, 500)
                /\ UNCHANGED <<data, ingested>>
           ELSE /\ Ingests < MaxIngest
                /\ connections' = conns1
                /\ data' = ProcessMetrics(data, n, metrics)
                /\ ingested' = [ingested EXCEPT ![n] =
                      [count |-> @.count + 1, last |-> metrics, prev |-> @.last.payload]]
                /\ aggResp' = Resp("metrics", bad, 200)
        /\ UNCHANGED <<now, hbPending, fwdPc, snapshot, seen, ticks, posted, accepted,
                       tsdb, direct, cfg>>
        /\ NoControlPlaneRequest
        /\ UNCHANGED <<catalogVars, lockVars, registryVars, agentVars, procVars, errChans>>
        /\ NoSweep

\* Server.handleNodeHeartbeat behind Server.authMiddleware, first half:
\* updateNodeActivity
handleNodeHeartbeat(n) ==
    /\ n \notin hbPending
    /\ IF authMiddleware(connections, n) # 0
       THEN /\ aggResp' = Resp("heartbeat", FALSE, authMiddleware(connections, n))
            /\ UNCHANGED <<connections, hbPending>>
       ELSE IF n \in DOMAIN connections
       THEN /\ connections' = updateNodeActivity(connections, n)
            /\ aggResp' = Resp("heartbeat", FALSE, 200)
            /\ UNCHANGED hbPending
       ELSE /\ connections' = updateNodeActivity(connections, n)
            /\ hbPending' = hbPending \cup {n}
            /\ aggResp' = NoResp
    /\ UNCHANGED <<now, data, fwdPc, snapshot, seen, ticks, posted, ingested, accepted,
                   tsdb, direct, cfg>>
    /\ NoControlPlaneRequest
    /\ UNCHANGED <<catalogVars, lockVars, registryVars, agentVars, procVars, errChans>>
    /\ NoSweep

\* Server.handleNodeHeartbeat, second half: registerOrUpdateNode(nodeID, false)
handleNodeHeartbeatRegister(n) ==
    /\ n \in hbPending
    /\ hbPending' = hbPending \ {n}
    /\ connections' = registerOrUpdateNode(connections, n, FALSE)
    /\ aggResp' = Resp("heartbeat", FALSE, 200)
    /\ UNCHANGED <<now, data, fwdPc, snapshot, seen, ticks, posted, ingested, accepted,
                   tsdb, direct, cfg>>
    /\ NoControlPlaneRequest
    /\ UNCHANGED <<catalogVars, lockVars, registryVars, agentVars, procVars, errChans>>
    /\ NoSweep

\* cleanupConnections deleting a session as soon as its age reaches the timeout
cleanupConnectionsAtTimeout ==
    LET expired == { n \in DOMAIN connections :
                       now - connections[n].LastActive >= ConnectionTimeout }
    IN  /\ expired # {}
        /\ connections' = [n \in DOMAIN connections \ expired |-> connections[n]]
        /\ accepted' = [n \in Nodes |-> IF n \in expired THEN FALSE ELSE accepted[n]]
        /\ swept' = expired
        /\ UNCHANGED <<now, data, hbPending, fwdPc, snapshot, seen, ticks, posted, ingested,
                       tsdb, direct, cfg>>
        /\ NoAggregatorRequest
        /\ NoControlPlaneRequest
        /\ UNCHANGED <<catalogVars, lockVars, registryVars, agentVars, procVars, errChans>>

\* cleanupConnections dropping the buffered payload of a session it deletes
cleanupConnectionsWithBuffer ==
    LET expired == { n \in DOMAIN connections :
                       now - connections[n].LastActive > ConnectionTimeout }
    IN  /\ expired # {}
        /\ connections' = [n \in DOMAIN connections \ expired |-> connections[n]]
        /\ accepted' = [n \in Nodes |-> IF n \in expired THEN FALSE ELSE accepted[n]]
        /\ swept' = expired
        /\ data' = [n \in DOMAIN data \ expired |-> data[n]]
        /\ UNCHANGED <<now, hbPending, fwdPc, snapshot, seen, ticks, posted, ingested,
                       tsdb, direct, cfg>>
        /\ NoAggregatorRequest
        /\ NoControlPlaneRequest
        /\ UNCHANGED <<catalogVars, lockVars, registryVars, agentVars, procVars, errChans>>

\* Server.cleanupConnections, fired by the ticker of cleanupExpiredConnections
cleanupConnections ==
    LET expired == { n \in DOMAIN connections :
                       now - connections[n].LastActive > ConnectionTimeout }
    IN  /\ expired # {}
        /\ connections' = [n \in DOMAIN connections \ expired |-> connections[n]]
        /\ accepted' = [n \in Nodes |-> IF n \in expired THEN FALSE ELSE accepted[n]]
        /\ swept' = expired
        /\ UNCHANGED <<now, data, hbPending, fwdPc, snapshot, seen, ticks, posted, ingested,
                       tsdb, direct, cfg>>
        /\ NoAggregatorRequest
        /\ NoControlPlaneRequest
        /\ UNCHANGED <<catalogVars, lockVars, registryVars, agentVars, procVars, errChans>>

\* time passes
Tick ==
    /\ now < MaxTime
    /\ now' = now + 1
    /\ UNCHANGED <<connections, data, hbPending, fwdPc, snapshot, seen, ticks, posted,
                   ingested, accepted, tsdb, direct, cfg>>
    /\ NoAggregatorRequest
    /\ NoControlPlaneRequest
    /\ catResp' = NoCatalogResp
    /\ UNCHANGED <<nodes, node_groups, services, reg, tx, issued, ops>>
    /\ UNCHANGED <<lockVars, registryVars, agentVars, procVars, errChans>>
    /\ NoSweep

----------------------------------------------------------------------------
(* Control-plane metrics ingest: MetricsHandler (gin handlers) and storage *)

\* MetricsHandler.processData
processData(c, req) ==
    LET d1 == IF req.enc /\ c.cpEnc THEN Decrypt(req.body, CPKey) ELSE req.body
    IN  IF IsErr(d1) THEN Failure
        ELSE IF req.cmp /\ c.cpCmp THEN DecompressData(d1)
        ELSE d1

\* MetricsStorage.StoreMetrics: the points are queued before any error is looked at
StoreMetrics(store, nodeID, metrics, received) ==
    Append(store, [node |-> nodeID, metrics |-> metrics, received_at |-> received])

\* StoreMetrics starts a goroutine that ranges over writeAPI.Errors() into an
\* errChan of its own and never returns: the errChans after a call that got as
\* far as that; a call that finds an error in its errChan takes it out again
StoreMetricsGoroutine(chans, store, stored) ==
    IF Len(stored) > Len(store) THEN Append(chans, 0) ELSE chans

\* the routes of SetupRouter in front of HandleMetricsSubmitGin: no handler of
\* the chain reads the Authorization header
RouteAllows(bearer) == TRUE

\* MetricsHandler.HandleMetricsSubmitGin: status code and store after the call;
\* storeErr says whether the storage reports a write error
HandleMetricsSubmitGin(store, c, nodeID, bearer, aggregatorID, req, storeErr) ==
    LET processed == processData(c, req)
        parsed == IF IsErr(processed) THEN [r |-> "error", m |-> NilMap]
                  ELSE JsonUnmarshal(processed)
    IN  IF ~RouteAllows(bearer) THEN [code |-> 401, store |-> store]
        ELSE IF nodeID = "" THEN [code |-> 400, store |-> store]
        ELSE IF IsErr(processed) \/ parsed.r = "error" THEN [code |-> 400, store |-> store]
        ELSE IF parsed.r = "nil" THEN [code |-> 500, store |-> store]
        ELSE [code  |-> IF storeErr THEN 500 ELSE 200,
              store |-> StoreMetrics(store, nodeID, parsed.m, now)]

CPRequest(nodeID, bearer, aggregatorID, req) ==
    [node |-> nodeID, bearer |-> bearer, aggregator |-> aggregatorID,
     malformed |-> Malformed(req, req.enc /\ cfg.cpEnc, req.cmp /\ cfg.cpCmp)]

\* a metrics POST that reaches the control plane from an agent or any other client
DirectPost(n, bearer, aggregatorID, req, storeErr) ==
    LET r == HandleMetricsSubmitGin(tsdb, cfg, n, bearer, aggregatorID, req, storeErr)
    IN  /\ direct < MaxDirect
        /\ direct' = direct + 1
        /\ tsdb' = r.store
        /\ errChans' = StoreMetricsGoroutine(errChans, tsdb, r.store)
        /\ cpReq' = CPRequest(n, bearer, aggregatorID, req)
        /\ cpResp' = r.code
        /\ post' = NoPost
        /\ UNCHANGED <<now, connections, data, hbPending, fwdPc, snapshot, seen, ticks, posted,
                       ingested, accepted, cfg>>
        /\ NoAggregatorRequest
        /\ UNCHANGED <<catalogVars, lockVars, registryVars, agentVars, procVars>>
        /\ NoSweep

\* a metrics POST during whose StoreMetrics call a write error arrives on
\* writeAPI.Errors() within the 100 ms, and the goroutine call j started, which
\* ranges over the same channel, is the one that receives it: the call's own
\* errChan stays empty and StoreMetrics returns nil
DirectPostErrorTaken(n, bearer, aggregatorID, req, j) ==
    LET r == HandleMetricsSubmitGin(tsdb, cfg, n, bearer, aggregatorID, req, FALSE)
    IN  /\ direct < MaxDirect
        /\ j \in 1..Len(errChans)
        /\ errChans[j] < 2
        /\ Len(r.store) > Len(tsdb)
        /\ direct' = direct + 1
        /\ tsdb' = r.store
        /\ errChans' = StoreMetricsGoroutine([errChans EXCEPT ![j] = @ + 1], tsdb, r.store)
        /\ cpReq' = CPRequest(n, bearer, aggregatorID, req)
        /\ cpResp' = r.code
        /\ post' = NoPost
        /\ UNCHANGED <<now, connections, data, hbPending, fwdPc, snapshot, seen, ticks, posted,
                       ingested, accepted, cfg>>
        /\ NoAggregatorRequest
        /\ UNCHANGED <<catalogVars, lockVars, registryVars, agentVars, procVars>>
        /\ NoSweep

----------------------------------------------------------------------------
(* Aggregator forwarder: internal/aggregator/processor.go *)

EmptyMap == [n \in {} |-> NilMap]

\* DataProcessor.processMetricsData, locked section: the snapshot taken and the
\* buffer it leaves behind
processMetricsDataCopy(buf) ==
    [snapshot |-> [n \in DOMAIN buf |-> buf[n]], data |-> buf]

\* a ticker whose ticks start processMetricsData while the call of the tick
\* before is still in its loop: the entries that call has not yet sent stay
ForwardTickOverlapping ==
    LET c == processMetricsDataCopy(data)
    IN  /\ ticks < MaxTicks
        /\ ticks' = ticks + 1
        /\ fwdPc' = "forwarding"
        /\ snapshot' = [n \in DOMAIN snapshot \cup DOMAIN c.snapshot |->
                            IF n \in DOMAIN snapshot THEN snapshot[n] ELSE c.snapshot[n]]
        /\ data' = c.data
        /\ seen' = ingested
        /\ UNCHANGED <<now, connections, hbPending, posted, ingested, accepted, tsdb, direct, cfg>>
        /\ NoAggregatorRequest
        /\ NoControlPlaneRequest
        /\ UNCHANGED <<catalogVars, lockVars, registryVars, agentVars, procVars, errChans>>
        /\ NoSweep

\* the ticker of DataProcessor.processMetrics fires: processMetricsData starts
ForwardTick ==
    LET c == processMetricsDataCopy(data)
    IN  /\ fwdPc = "idle"
        /\ ticks < MaxTicks
        /\ ticks' = ticks + 1
        /\ fwdPc' = "forwarding"
        /\ snapshot' = c.snapshot
        /\ data' = c.data
        /\ seen' = ingested
        /\ UNCHANGED <<now, connections, hbPending, posted, ingested, accepted, tsdb, direct, cfg>>
        /\ NoAggregatorRequest
        /\ NoControlPlaneRequest
        /\ UNCHANGED <<catalogVars, lockVars, registryVars, agentVars, procVars, errChans>>
        /\ NoSweep

\* the loop of processMetricsData trying a node again after a failed POST
ForwardPostRetry(n, reached, storeErr) ==
    LET metrics == [snapshot[n] EXCEPT !.processed_at = {now}]
        req == [enc |-> FALSE, cmp |-> FALSE, body |-> JsonMarshal(metrics)]
        r == HandleMetricsSubmitGin(tsdb, cfg, n, CPToken, "aggregator-1", req, storeErr)
        failed == ~reached \/ r.code # 200
    IN  /\ fwdPc = "forwarding"
        /\ n \in DOMAIN snapshot
        /\ snapshot' = IF failed THEN snapshot
                       ELSE [m \in DOMAIN snapshot \ {n} |-> snapshot[m]]
        /\ post' = [node |-> n, metrics |-> metrics]
        /\ posted' = [posted EXCEPT ![n] = [tick |-> ticks, count |-> seen[n].count]]
        /\ IF reached
           THEN /\ tsdb' = r.store
                /\ errChans' = StoreMetricsGoroutine(errChans, tsdb, r.store)
                /\ cpReq' = CPRequest(n, CPToken, "aggregator-1", req)
                /\ cpResp' = r.code
           ELSE /\ cpReq' = NoRequest
                /\ cpResp' = 0
                /\ UNCHANGED <<tsdb, errChans>>
        /\ UNCHANGED <<now, connections, data, hbPending, fwdPc, seen, ticks, ingested,
                       accepted, direct, cfg>>
        /\ NoAggregatorRequest
        /\ UNCHANGED <<catalogVars, lockVars, registryVars, agentVars, procVars>>
        /\ NoSweep

\* DataProcessor.processMetricsData, one iteration of the loop over the snapshot:
\* stamp processed_at and forwardMetricsToControlPlane; reached says whether the
\* request reaches the control plane before the 5 s timeout
ForwardPost(n, reached, storeErr) ==
    LET metrics == [snapshot[n] EXCEPT !.processed_at = {now}]
        req == [enc |-> FALSE, cmp |-> FALSE, body |-> JsonMarshal(metrics)]
        r == HandleMetricsSubmitGin(tsdb, cfg, n, CPToken, "aggregator-1", req, storeErr)
    IN  /\ fwdPc = "forwarding"
        /\ n \in DOMAIN snapshot
        /\ snapshot' = [m \in DOMAIN snapshot \ {n} |-> snapshot[m]]
        /\ post' = [node |-> n, metrics |-> metrics]
        /\ posted' = [posted EXCEPT ![n] = [tick |-> ticks, count |-> seen[n].count]]
        /\ IF reached
           THEN /\ tsdb' = r.store
                /\ errChans' = StoreMetricsGoroutine(errChans, tsdb, r.store)
                /\ cpReq' = CPRequest(n, CPToken, "aggregator-1", req)
                /\ cpResp' = r.code
           ELSE /\ cpReq' = NoRequest
                /\ cpResp' = 0
                /\ UNCHANGED <<tsdb, errChans>>
        /\ UNCHANGED <<now, connections, data, hbPending, fwdPc, seen, ticks, ingested,
                       accepted, direct, cfg>>
        /\ NoAggregatorRequest
        /\ UNCHANGED <<catalogVars, lockVars, registryVars, agentVars, procVars>>
        /\ NoSweep

\* DataProcessor.processMetricsData returns: the loop over the snapshot is over
ForwardDone ==
    /\ fwdPc = "forwarding"
    /\ DOMAIN snapshot = {}
    /\ fwdPc' = "idle"
    /\ UNCHANGED <<now, connections, data, hbPending, snapshot, seen, ticks, posted, ingested,
                   accepted, tsdb, direct, cfg>>
    /\ NoAggregatorRequest
    /\ NoControlPlaneRequest
    /\ UNCHANGED <<catalogVars, lockVars, registryVars, agentVars, procVars, errChans>>
    /\ NoSweep

----------------------------------------------------------------------------
(* Locks of the aggregator: the sync.RWMutex of DataProcessor.metrics and of  *)
(* Server.connections, and the goroutines that do network I/O                *)

Readers == {"getnodes", "getgroups", "config"}   \* goroutines that take RLock
CanLock(m) == mu[m] = {}            \* Lock waits for every holder
CanRLock(m) == mu[m] \subseteq Readers   \* RLock waits for a writer

\* DataProcessor.processMetricsData: p.metrics.Lock() and the copy of the buffer
ForwardLock ==
    LET c == processMetricsDataCopy(data)
    IN  /\ fwdPc = "idle"
        /\ ticks < MaxTicks
        /\ CanLock("metrics")
        /\ mu' = [mu EXCEPT !.metrics = {"forwarder"}]
        /\ ticks' = ticks + 1
        /\ fwdPc' = "copied"
        /\ snapshot' = c.snapshot
        /\ data' = c.data
        /\ seen' = ingested
        /\ UNCHANGED <<now, connections, hbPending, posted, ingested, accepted, tsdb, direct,
                       cfg, inflight>>
        /\ NoAggregatorRequest
        /\ NoControlPlaneRequest
        /\ UNCHANGED <<catalogVars, swept, registryVars, agentVars, procVars, errChans>>

\* DataProcessor.processMetricsData: p.metrics.Unlock(), then the loop of POSTs
ForwardUnlock ==
    /\ fwdPc = "copied"
    /\ mu' = [mu EXCEPT !.metrics = @ \ {"forwarder"}]
    /\ fwdPc' = "forwarding"
    /\ UNCHANGED <<now, connections, data, hbPending, snapshot, seen, ticks, posted, ingested,
                   accepted, tsdb, direct, cfg, inflight>>
    /\ NoAggregatorRequest
    /\ NoControlPlaneRequest
    /\ UNCHANGED <<catalogVars, swept, registryVars, agentVars, procVars, errChans>>

\* Server.handleNodeMetrics where the mutexes are taken: updateNodeActivity
\* locks connections, ProcessMetrics locks metrics
handleNodeMetricsLocked(n, req) ==
    /\ CanLock("connections")
    /\ handleNodeMetrics(n, req)
    /\ aggResp'.code = 200 => CanLock("metrics")

\* Server.handleNodeRegister up to the call of controlPlane.ValidateNode
handleNodeRegisterValidateNode(n) ==
    /\ n \notin inflight
    /\ inflight' = inflight \cup {n}
    /\ UNCHANGED <<now, connections, data, hbPending, fwdPc, snapshot, seen, ticks, posted,
                   ingested, accepted, tsdb, direct, cfg, mu>>
    /\ NoAggregatorRequest
    /\ NoControlPlaneRequest
    /\ UNCHANGED <<catalogVars, swept, registryVars, agentVars, procVars, errChans>>

\* Server.handleNodeRegister from the answer of ValidateNode on:
\* registerOrUpdateNode locks connections
handleNodeRegisterLocked(n, status) ==
    /\ n \in inflight
    /\ inflight' = inflight \ {n}
    /\ IF ValidateNodeOK(status)
       THEN /\ CanLock("connections")
            /\ connections' = registerOrUpdateNode(connections, n, TRUE)
            /\ aggResp' = Resp("register", FALSE, 200)
       ELSE /\ aggResp' = Resp("register", FALSE, 401)
            /\ UNCHANGED connections
    /\ accepted' = [accepted EXCEPT ![n] = @ \/ status = 200]
    /\ UNCHANGED <<now, data, hbPending, fwdPc, snapshot, seen, ticks, posted, ingested,
                   tsdb, direct, cfg, mu>>
    /\ NoControlPlaneRequest
    /\ UNCHANGED <<catalogVars, swept, registryVars, agentVars, procVars, errChans>>

\* Server.handleGetNodes: s.connections.RLock(), defer RUnlock()
handleGetNodesRLock ==
    /\ "getnodes" \notin mu.connections
    /\ CanRLock("connections")
    /\ mu' = [mu EXCEPT !.connections = @ \cup {"getnodes"}]
    /\ UNCHANGED <<now, connections, data, hbPending, fwdPc, snapshot, seen, ticks, posted,
                   ingested, accepted, tsdb, direct, cfg, inflight>>
    /\ NoAggregatorRequest
    /\ NoControlPlaneRequest
    /\ UNCHANGED <<catalogVars, swept, registryVars, agentVars, procVars, errChans>>

\* Server.handleGetNodes: c.JSON writes the list to the connection of the client
handleGetNodesRespond ==
    /\ "getnodes" \in mu.connections
    /\ "getnodes" \notin inflight
    /\ inflight' = inflight \cup {"getnodes"}
    /\ aggResp' = Resp("nodes", FALSE, 200)
    /\ UNCHANGED <<now, connections, data, hbPending, fwdPc, snapshot, seen, ticks, posted,
                   ingested, accepted, tsdb, direct, cfg, mu>>
    /\ NoControlPlaneRequest
    /\ UNCHANGED <<catalogVars, swept, registryVars, agentVars, procVars, errChans>>

\* Server.handleGetNodes returns: the deferred RUnlock runs
handleGetNodesReturn ==
    /\ "getnodes" \in inflight
    /\ inflight' = inflight \ {"getnodes"}
    /\ mu' = [mu EXCEPT !.connections = @ \ {"getnodes"}]
    /\ UNCHANGED <<now, connections, data, hbPending, fwdPc, snapshot, seen, ticks, posted,
                   ingested, accepted, tsdb, direct, cfg>>
    /\ NoAggregatorRequest
    /\ NoControlPlaneRequest
    /\ UNCHANGED <<catalogVars, swept, registryVars, agentVars, procVars, errChans>>

\* the goroutine is in network I/O: the forwarder while it loops over the
\* snapshot, a handler while it calls the control plane or writes its answer
InNetworkIO(g) == IF g = "forwarder" THEN fwdPc = "forwarding" ELSE g \in inflight
Holds(g) == g \in mu.metrics \/ g \in mu.connections
Goroutines == {"forwarder", "getnodes"} \cup Nodes

----------------------------------------------------------------------------
(* The aggregator server that registers a node on its first activity: the    *)
(* handlers of the variant whose updateNodeActivity calls registerNode. The  *)
(* goroutine of a request is named by the node of the request; hbPending     *)
(* holds the goroutines that stand at the Lock() of registerNode. The        *)
(* sessions of this variant have no field Verified: it is FALSE throughout.  *)

\* what the handlers of this section leave alone
ActivityStep ==
    /\ UNCHANGED <<now, data, fwdPc, snapshot, seen, ticks, posted, ingested, accepted,
                   tsdb, direct, cfg, inflight>>
    /\ NoControlPlaneRequest
    /\ UNCHANGED <<catalogVars, swept, registryVars, agentVars, procVars, errChans>>

\* handleNodeHeartbeat and handleNodeMetrics: updateNodeActivity is entered,
\* s.connections.Lock()
updateNodeActivityLock(n) ==
    /\ n \notin mu.connections
    /\ n \notin hbPending
    /\ CanLock("connections")
    /\ mu' = [mu EXCEPT !.connections = @ \cup {n}]
    /\ NoAggregatorRequest
    /\ UNCHANGED <<connections, hbPending>>
    /\ ActivityStep

\* updateNodeActivity finds the session: it stamps it, the deferred Unlock
\* runs and the handler answers 200
updateNodeActivityFound(n) ==
    /\ n \in mu.connections
    /\ n \notin hbPending
    /\ n \in DOMAIN connections
    /\ connections' = updateNodeActivity(connections, n)
    /\ mu' = [mu EXCEPT !.connections = @ \ {n}]
    /\ aggResp' = Resp("heartbeat", FALSE, 200)
    /\ UNCHANGED hbPending
    /\ ActivityStep

\* updateNodeActivity finds no session: it calls registerNode, the lock held
updateNodeActivityRegister(n) ==
    /\ n \in mu.connections
    /\ n \notin hbPending
    /\ n \notin DOMAIN connections
    /\ hbPending' = hbPending \cup {n}
    /\ NoAggregatorRequest
    /\ UNCHANGED <<connections, mu>>
    /\ ActivityStep

\* handleNodeRegister of the variant, ValidateNode having answered 200: it
\* calls registerNode, no lock held
handleNodeRegisterRegister(n) ==
    /\ n \notin mu.connections
    /\ n \notin hbPending
    /\ hbPending' = hbPending \cup {n}
    /\ NoAggregatorRequest
    /\ UNCHANGED <<connections, mu>>
    /\ ActivityStep

\* registerNode: s.connections.Lock(), the session written, the deferred
\* Unlock; the caller returns (its own deferred Unlock runs) and answers 200
registerNode(n) ==
    /\ n \in hbPending
    /\ CanLock("connections")
    /\ hbPending' = hbPending \ {n}
    /\ connections' = [m \in DOMAIN connections \cup {n} |->
                          IF m = n THEN NodeConnection(n, "connected", FALSE, now, now)
                          ELSE connections[m]]
    /\ mu' = [mu EXCEPT !.connections = @ \ {n}]
    /\ aggResp' = Resp("register", FALSE, 200)
    /\ ActivityStep

\* cleanupConnections of the variant: s.connections.Lock(), defer Unlock()
cleanupConnectionsLocked ==
    /\ CanLock("connections")
    /\ cleanupConnections

----------------------------------------------------------------------------
(* Control-plane node catalog: tables nodes, node_groups and services behind  *)
(* the PostgreSQL repositories, and node registration                        *)

Null == "NULL"                      \* SQL NULL, sql.NullString{Valid: false}
GroupIDs == {"g1"}
ServiceIDs == {"s1"}
Tokens == {"tok-1", "tok-2"}        \* cleartext tokens: sent in auth_token or generated
Salts == {"salt-1", "salt-2"}       \* the salt bcrypt draws for a new hash

\* the default key of HandleRegisterNodeGin and HandleGetNodeTokenGin, longer
\* than KeySize
DefaultMasterKey == <<5>> \o Zeros(KeySize + 2)

\* a security.encryption.key set in the configuration of the control plane
ConfiguredMasterKey == <<6>> \o Zeros(KeySize - 1)

\* systemKey of the two handlers: security.encryption.key, and the default key
\* where that is empty
MasterKey == IF life.securityKey = <<>> THEN DefaultMasterKey ELSE life.securityKey

\* bcrypt: the hash text holds the salt and the digest of password under it
bcrypt(password, salt) == [salt |-> salt, digest |-> password]

\* utils.HashPassword, salt being the one bcrypt.GenerateFromPassword draws
HashPassword(password, salt) == bcrypt(password, salt)

\* ComparePasswordAndHash hashing the password anew and comparing the texts
ComparePasswordAndHashAnew(password, hash) == HashPassword(password, "salt-1") = hash

\* utils.ComparePasswordAndHash: bcrypt.CompareHashAndPassword recomputes the
\* digest under the salt of the hash
ComparePasswordAndHash(password, hash) == bcrypt(password, hash.salt) = hash

\* a row of table nodes
NodeRow(name, hash, encrypted, status, group_id, service_id, registered_at, last_active_at) ==
    [name |-> name, auth_token_hash |-> hash, encrypted_auth_token |-> encrypted,
     status |-> status, group_id |-> group_id, service_id |-> service_id,
     registered_at |-> registered_at, last_active_at |-> last_active_at]

\* body of POST /api/v1/nodes/register; "" is a field left out
RegisterRequest(node_id, name, group_id, service_id) ==
    [node_id |-> node_id, name |-> name, group_id |-> group_id, service_id |-> service_id]
RegisterRequests ==
    { RegisterRequest(n, "web", "g1", "s1") : n \in Nodes } \cup
    { RegisterRequest(n, "db", "", "") : n \in Nodes } \cup
    { RegisterRequest("node-A", "db", "g1", "") }

\* the foreign keys of table nodes not declared
ForeignKeysUndeclared(row, groups, svcs) == TRUE

\* createNodesTable: group_id REFERENCES node_groups(id), service_id
\* REFERENCES services(id)
ForeignKeysHold(row, groups, svcs) ==
    /\ row.group_id = Null \/ row.group_id \in groups
    /\ row.service_id = Null \/ row.service_id \in svcs

\* PostgresNodeRepository.GetByID: the row, found = FALSE for (nil, nil)
NoRow == NodeRow("", bcrypt("", "salt-1"), Null, "", Null, Null, 0, 0)
GetByID(tbl, id) ==
    IF id \in DOMAIN tbl THEN [found |-> TRUE, node |-> tbl[id]]
    ELSE [found |-> FALSE, node |-> NoRow]

\* PostgresNodeRepository.Create: INSERT INTO nodes
Create(tbl, id, row, groups, svcs) ==
    IF id \in DOMAIN tbl \/ ~ForeignKeysHold(row, groups, svcs)
    THEN [ok |-> FALSE, tbl |-> tbl]
    ELSE [ok |-> TRUE,
          tbl |-> [n \in DOMAIN tbl \cup {id} |-> IF n = id THEN row ELSE tbl[n]]]

\* PostgresNodeRepository.Update: UPDATE nodes SET ... WHERE id = $1
Update(tbl, id, row, groups, svcs) ==
    IF id \notin DOMAIN tbl \/ ~ForeignKeysHold(row, groups, svcs)
    THEN [ok |-> FALSE, tbl |-> tbl]
    ELSE [ok |-> TRUE, tbl |-> [tbl EXCEPT ![id] = row]]

\* PostgresNodeRepository.ValidateNodeToken
ValidateNodeToken(tbl, id, token) ==
    IF id \notin DOMAIN tbl THEN FALSE
    ELSE ComparePasswordAndHash(token, tbl[id].auth_token_hash)

\* base64.StdEncoding.DecodeString
DecodeString(d) == IF d.k = "b64" THEN d.v ELSE Failure

\* []byte(authToken), and string(decryptedBytes) back
Bytes(text) == [k |-> "bytes", v |-> text]

\* token recovery that answers 200 without the token
RecoverTokenMasked(row) == [code |-> 200, auth_token |-> ""]

\* HandleGetNodeTokenGin for a row it has found, the row holding a ciphertext
\* (an empty column is answered 404): status and auth_token of the answer
RecoverToken(row) ==
    LET encryptedBytes == DecodeString(row.encrypted_auth_token)
        decryptedBytes == IF IsErr(encryptedBytes) THEN Failure
                          ELSE Decrypt(encryptedBytes, MasterKey)
    IN  IF IsErr(decryptedBytes) \/ decryptedBytes.k # "bytes"
    THEN [code |-> 500, auth_token |-> ""]
        ELSE [code |-> 200, auth_token |-> decryptedBytes.v]

\* the node entity of HandleRegisterNodeGin storing the ciphertext as Encrypt
\* returns it
NewNodeCiphertext(req, authToken, salt) ==
    NodeRow(req.name, HashPassword(authToken, salt),
            Encrypt(Bytes(authToken), MasterKey), "pending",
            IF req.group_id # "" THEN req.group_id ELSE Null,
            IF req.service_id # "" THEN req.service_id ELSE Null,
            now, now)

\* HandleRegisterNodeGin, node == nil: the node entity it creates
NewNode(req, authToken, salt) ==
    NodeRow(req.name, HashPassword(authToken, salt),
            Base64(Encrypt(Bytes(authToken), MasterKey)), "pending",
            IF req.group_id # "" THEN req.group_id ELSE Null,
            IF req.service_id # "" THEN req.service_id ELSE Null,
            now, now)

\* the update of HandleRegisterNodeGin issuing a token again
UpdatedNodeRotate(node, req) ==
    [node EXCEPT !.name = req.name,
                 !.auth_token_hash = HashPassword("tok-2", "salt-2"),
                 !.group_id = IF req.group_id # "" THEN req.group_id ELSE @,
                 !.service_id = IF req.service_id # "" THEN req.service_id ELSE @,
                 !.status = IF @ = "inactive" THEN "pending" ELSE @,
                 !.last_active_at = now]

\* the update of HandleRegisterNodeGin setting every node back to pending
UpdatedNodePending(node, req) ==
    [node EXCEPT !.name = req.name,
                 !.group_id = IF req.group_id # "" THEN req.group_id ELSE @,
                 !.service_id = IF req.service_id # "" THEN req.service_id ELSE @,
                 !.status = "pending",
                 !.last_active_at = now]

\* HandleRegisterNodeGin, node != nil: the entity read by GetByID with the
\* fields of the request written over it
UpdatedNode(node, req) ==
    [node EXCEPT !.name = req.name,
                 !.group_id = IF req.group_id # "" THEN req.group_id ELSE @,
                 !.service_id = IF req.service_id # "" THEN req.service_id ELSE @,
                 !.status = IF @ = "inactive" THEN "pending" ELSE @,
                 !.last_active_at = now]

Kinds == {"group", "service"}
Conns == {"c1", "c2"}               \* database connections running a Delete
Ref(row, kind) == IF kind = "group" THEN row.group_id ELSE row.service_id
SetNull(row, kind) ==
    IF kind = "group" THEN [row EXCEPT !.group_id = Null]
    ELSE [row EXCEPT !.service_id = Null]
Referencing(kind, id) == { n \in DOMAIN nodes : Ref(nodes[n], kind) = id }

\* row locks of open transactions: a row of nodes updated by another
\* transaction, a row of node_groups or services deleted by an open transaction
RowLocked(n, self) == \E t \in tx \ {self} : n \in t.nulled
RefLocked(kind, id, self) ==
    \E t \in tx \ {self} : t.kind = kind /\ t.id = id /\ t.pc = "deleted"
NoTx == [kind |-> "", id |-> "", conn |-> "", pc |-> "", nulled |-> {}]
Waits(row) == RefLocked("group", row.group_id, NoTx) \/ RefLocked("service", row.service_id, NoTx)

\* HandleRegisterNodeGin up to the answer of nodeRepo.GetByID
HandleRegisterNodeGinGetByID(req) ==
    LET r == GetByID(nodes, req.node_id)
    IN  /\ ops < MaxOps
        /\ ops' = ops + 1
        /\ reg' = reg \cup {[req |-> req, found |-> r.found, node |-> r.node]}
        /\ catResp' = NoCatalogResp
        /\ UNCHANGED <<nodes, node_groups, services, tx, issued>>
        /\ UNCHANGED <<ingestVars, otherVars>>

\* HandleRegisterNodeGin, node == nil: token, hash, nodeRepo.Create, answer
HandleRegisterNodeGinCreate(r, authToken, salt) ==
    LET node == NewNode(r.req, authToken, salt)
        c == Create(nodes, r.req.node_id, node, node_groups, services)
    IN  /\ r \in reg
        /\ ~r.found
        /\ ~Waits(node)
        /\ reg' = reg \ {r}
        /\ nodes' = c.tbl
        /\ issued' = IF c.ok THEN [issued EXCEPT ![r.req.node_id] = authToken] ELSE issued
        /\ catResp' = CatalogResp("register", c.ok, r.req.node_id,
                                  IF c.ok THEN authToken ELSE "", r.req.name)
        /\ UNCHANGED <<node_groups, services, tx, ops>>
        /\ UNCHANGED <<ingestVars, otherVars>>

\* HandleRegisterNodeGin, node != nil: nodeRepo.Update, answer without a token
HandleRegisterNodeGinUpdate(r) ==
    LET node == UpdatedNode(r.node, r.req)
        u == Update(nodes, r.req.node_id, node, node_groups, services)
    IN  /\ r \in reg
        /\ r.found
        /\ ~Waits(node)
        /\ ~RowLocked(r.req.node_id, NoTx)
        /\ reg' = reg \ {r}
        /\ nodes' = u.tbl
        /\ catResp' = CatalogResp("update", u.ok, r.req.node_id, "", r.req.name)
        /\ UNCHANGED <<node_groups, services, tx, issued, ops>>
        /\ UNCHANGED <<ingestVars, otherVars>>

\* setupNodeRoutes: the handler gin finds for a method and the path segments
\* below /api/v1/nodes ("NoRoute": none is registered)
setupNodeRoutes(method, segs) ==
    CASE method = "GET" /\ segs = <<>> -> "HandleGetAllNodesGin"
      [] method = "GET" /\ segs = <<"metrics">> -> "HandleGetNodeMetricsGin"
      [] method = "POST" /\ segs = <<"register">> -> "HandleRegisterNodeGin"
      [] method = "PUT" /\ segs = <<"status">> -> "HandleUpdateNodeStatusGin"
      [] method = "POST" /\ Len(segs) = 2 /\ segs[2] = "metrics" -> "HandleMetricsSubmitGin"
      [] method = "GET" /\ Len(segs) = 2 /\ segs[2] = "token" -> "HandleRetrieveNodeTokenGin"
      [] OTHER -> "NoRoute"

\* GET /api/v1/nodes/{node_id}/token, HandleGetNodeTokenGin: 404 for a node the
\* table does not hold, else the recovered token
HandleGetNodeTokenGin(nodeID) ==
    LET r == GetByID(nodes, nodeID)
        t == IF r.found THEN RecoverToken(r.node) ELSE [code |-> 404, auth_token |-> ""]
    IN  /\ setupNodeRoutes("GET", <<nodeID, "token">>) = "HandleRetrieveNodeTokenGin"
        /\ catResp' = CatalogResp("token", t.code = 200, nodeID, t.auth_token, "")
        /\ UNCHANGED <<nodes, node_groups, services, reg, tx, issued, ops>>
        /\ UNCHANGED <<ingestVars, otherVars>>

\* PostgresNodeGroupRepository.Create / PostgresServiceRepository.Create
CreateRecord(kind, id) ==
    LET exists == IF kind = "group" THEN id \in node_groups ELSE id \in services
    IN  /\ ops < MaxOps
        /\ ops' = ops + 1
        /\ ~RefLocked(kind, id, NoTx)
        /\ node_groups' = IF kind = "group" THEN node_groups \cup {id} ELSE node_groups
        /\ services' = IF kind = "service" THEN services \cup {id} ELSE services
        /\ catResp' = CatalogResp("create", ~exists, id, "", "")
        /\ UNCHANGED <<nodes, reg, tx, issued>>
        /\ UNCHANGED <<ingestVars, otherVars>>

\* PostgresNodeRepository.ValidateNodeToken called for (id, token)
ValidateToken(id, token) ==
    /\ catResp' = CatalogResp("validate", ValidateNodeToken(nodes, id, token), id, token, "")
    /\ UNCHANGED <<nodes, node_groups, services, reg, tx, issued, ops>>
    /\ UNCHANGED <<ingestVars, otherVars>>

\* a Delete whose UPDATE went to the pool instead of the transaction: the
\* rollback leaves the references nulled
RollbackAfterAutocommit(tbl, t) ==
    [n \in DOMAIN tbl |-> IF n \in t.nulled THEN SetNull(tbl[n], t.kind) ELSE tbl[n]]

\* defer tx.Rollback() after an error: table nodes as the transaction leaves it
Rollback(tbl, t) == tbl

\* the transaction of a Delete ends in an error: rollback and answer
DeleteFails(t) ==
    /\ tx' = tx \ {t}
    /\ nodes' = Rollback(nodes, t)
    /\ catResp' = CatalogResp("delete", FALSE, t.id, "", "")
    /\ UNCHANGED <<node_groups, services>>

\* PostgresNodeGroupRepository.Delete / PostgresServiceRepository.Delete: BeginTx
DeleteBeginTx(kind, id, conn) ==
    /\ ops < MaxOps
    /\ ops' = ops + 1
    /\ \A t \in tx : t.conn # conn
    /\ tx' = tx \cup {[kind |-> kind, id |-> id, conn |-> conn, pc |-> "begun", nulled |-> {}]}
    /\ catResp' = NoCatalogResp
    /\ UNCHANGED <<nodes, node_groups, services, reg, issued>>
    /\ UNCHANGED <<ingestVars, otherVars>>

\* Delete: UPDATE nodes SET group_id = NULL WHERE group_id = $1 (service_id
\* likewise), inside the transaction; failed says the statement fails
DeleteUpdateNodes(t, failed) ==
    LET rows == Referencing(t.kind, t.id)
    IN  /\ t \in tx
        /\ t.pc = "begun"
        /\ \A n \in rows : ~RowLocked(n, t)
        /\ IF failed
           THEN DeleteFails(t)
           ELSE /\ tx' = (tx \ {t}) \cup {[t EXCEPT !.pc = "updated", !.nulled = rows]}
                /\ catResp' = NoCatalogResp
                /\ UNCHANGED <<nodes, node_groups, services>>
        /\ UNCHANGED <<reg, issued, ops>>
        /\ UNCHANGED <<ingestVars, otherVars>>

\* Delete: DELETE FROM node_groups WHERE id = $1 (services likewise) and the
\* rowsAffected test; ON DELETE SET NULL nulls the references committed since
DeleteExec(t, failed) ==
    LET exists == IF t.kind = "group" THEN t.id \in node_groups ELSE t.id \in services
        rows == Referencing(t.kind, t.id)
    IN  /\ t \in tx
        /\ t.pc = "updated"
        /\ ~RefLocked(t.kind, t.id, t)
        /\ \A n \in rows : ~RowLocked(n, t)
        /\ IF failed \/ ~exists
           THEN DeleteFails(t)
           ELSE /\ tx' = (tx \ {t}) \cup
                          {[t EXCEPT !.pc = "deleted", !.nulled = t.nulled \cup rows]}
                /\ catResp' = NoCatalogResp
                /\ UNCHANGED <<nodes, node_groups, services>>
        /\ UNCHANGED <<reg, issued, ops>>
        /\ UNCHANGED <<ingestVars, otherVars>>

\* Delete: tx.Commit
DeleteCommit(t, failed) ==
    /\ t \in tx
    /\ t.pc = "deleted"
    /\ IF failed
       THEN DeleteFails(t)
       ELSE /\ tx' = tx \ {t}
            /\ nodes' = [n \in DOMAIN nodes |->
                            IF n \in t.nulled THEN SetNull(nodes[n], t.kind) ELSE nodes[n]]
            /\ node_groups' = IF t.kind = "group" THEN node_groups \ {t.id} ELSE node_groups
            /\ services' = IF t.kind = "service" THEN services \ {t.id} ELSE services
            /\ catResp' = CatalogResp("delete", TRUE, t.id, "", "")
    /\ UNCHANGED <<reg, issued, ops>>
    /\ UNCHANGED <<ingestVars, otherVars>>

----------------------------------------------------------------------------
(* Registration from the aggregator through the control plane's router *)

\* the status ControlPlaneClient.ValidateNode receives for its request
\* POST /api/v1/nodes/{nodeID}/validate with the bearer token: 404 of gin where
\* no route matches, and the answer of the identity check where one calls it
ValidateNodeStatus(nodeID, token) ==
    IF setupNodeRoutes("POST", <<nodeID, "validate">>) = "NoRoute" THEN 404
    ELSE IF ValidateNodeToken(nodes, nodeID, token) THEN 200
    ELSE 401

\* Server.handleNodeRegister of the aggregator with the control plane behind it
handleNodeRegisterAtControlPlane(n, token) ==
    handleNodeRegister(n, ValidateNodeStatus(n, token))

----------------------------------------------------------------------------
(* The registry ControlPlaneServer keeps in memory *)

NodeTypes == {"fixed", "non-fixed", "other"}

\* the slice without the first occurrence of id (append(s[:i], s[i+1:]...); break)
RemoveFirst(ids, id) ==
    IF \E i \in 1..Len(ids) : ids[i] = id
    THEN LET i == CHOOSE k \in 1..Len(ids) :
                     ids[k] = id /\ \A j \in 1..(k - 1) : ids[j] # id
         IN  SubSeq(ids, 1, i - 1) \o SubSeq(ids, i + 1, Len(ids))
    ELSE ids

\* ControlPlaneServer.removeNodeFromGroup
removeNodeFromGroup(groups, nodeID, groupID) ==
    IF groupID \in DOMAIN groups
    THEN [groups EXCEPT ![groupID].NodeIDs = RemoveFirst(@, nodeID)]
    ELSE groups

\* ControlPlaneServer.removeNodeFromService
removeNodeFromService(svcs, nodeID, serviceID) ==
    IF serviceID \in DOMAIN svcs /\ \E i \in 1..Len(svcs[serviceID].NodeIDs) :
                                         svcs[serviceID].NodeIDs[i] = nodeID
    THEN [svcs EXCEPT ![serviceID] =
            [NodeIDs |-> RemoveFirst(@.NodeIDs, nodeID),
             NodePriorities |-> [n \in DOMAIN @.NodePriorities \ {nodeID} |->
                                    @.NodePriorities[n]]]]
    ELSE svcs

\* the loop of cleanupNodes over the nodes it deletes
RECURSIVE removeExpired(_, _, _, _)
removeExpired(S, tbl, groups, svcs) ==
    IF S = {} THEN [groups |-> groups, services |-> svcs]
    ELSE LET n == CHOOSE x \in S : TRUE
             g == IF tbl[n].GroupID # ""
                  THEN removeNodeFromGroup(groups, n, tbl[n].GroupID) ELSE groups
             v == IF tbl[n].ServiceID # ""
                  THEN removeNodeFromService(svcs, n, tbl[n].ServiceID) ELSE svcs
         IN  removeExpired(S \ {n}, tbl, g, v)

\* cleanupNodes deleting only the nodes silent for more than twice the expiry
cleanupNodesLate ==
    LET expired == { n \in DOMAIN nodesData :
                       now - nodesData[n].LastActive > 2 * NodeExpiry }
        r == removeExpired(expired, nodesData, groupsData, servicesData)
    IN  /\ expired # {}
        /\ nodesData' = [n \in DOMAIN nodesData \ expired |-> nodesData[n]]
        /\ groupsData' = r.groups
        /\ servicesData' = r.services
        /\ swept' = expired
        /\ UNCHANGED <<ingestVars, catalogVars, lockVars, agentVars, procVars, errChans>>

\* ControlPlaneServer.cleanupNodes, fired by the ticker of cleanupExpiredNodes
\* (which runs where discovery.auto_remove_expired is set)
cleanupNodes ==
    LET expired == { n \in DOMAIN nodesData :
                       now - nodesData[n].LastActive > NodeExpiry }
        r == removeExpired(expired, nodesData, groupsData, servicesData)
    IN  /\ expired # {}
        /\ nodesData' = [n \in DOMAIN nodesData \ expired |-> nodesData[n]]
        /\ groupsData' = r.groups
        /\ servicesData' = r.services
        /\ swept' = expired
        /\ UNCHANGED <<ingestVars, catalogVars, lockVars, agentVars, procVars, errChans>>

\* ControlPlaneServer.handleNodeRegister (POST /api/v1/nodes/register)
ControlPlaneServerHandleNodeRegister(n, type, token) ==
    /\ IF type \notin {"fixed", "non-fixed"}
       THEN cpResp' = 400 /\ UNCHANGED nodesData
       ELSE IF token = ""
       THEN cpResp' = 401 /\ UNCHANGED nodesData
       ELSE /\ cpResp' = 200
            /\ nodesData' = [x \in DOMAIN nodesData \cup {n} |->
                  IF x = n
                  THEN [Type |-> type, Status |-> "active", LastActive |-> now,
                        RegisteredAt |-> now, GroupID |-> "", ServiceID |-> ""]
                  ELSE nodesData[x]]
    /\ cpReq' = NoRequest /\ post' = NoPost
    /\ NoAggregatorRequest
    /\ NoSweep
    /\ UNCHANGED <<now, connections, data, hbPending, fwdPc, snapshot, seen, ticks, posted,
                   ingested, accepted, tsdb, direct, cfg>>
    /\ UNCHANGED <<groupsData, servicesData, catalogVars, lockVars, agentVars, procVars, errChans>>

\* ControlPlaneServer.handleCreateGroup (POST /api/v1/groups); the id is drawn
\* from the clock
handleCreateGroup(id, name) ==
    /\ IF name = ""
       THEN cpResp' = 400 /\ UNCHANGED groupsData
       ELSE /\ cpResp' = 201
            /\ groupsData' = [g \in DOMAIN groupsData \cup {id} |->
                  IF g = id THEN [NodeIDs |-> <<>>] ELSE groupsData[g]]
    /\ cpReq' = NoRequest /\ post' = NoPost
    /\ NoAggregatorRequest
    /\ NoSweep
    /\ UNCHANGED <<now, connections, data, hbPending, fwdPc, snapshot, seen, ticks, posted,
                   ingested, accepted, tsdb, direct, cfg>>
    /\ UNCHANGED <<nodesData, servicesData, catalogVars, lockVars, agentVars, procVars, errChans>>

\* ControlPlaneServer.handleCreateService (POST /api/v1/services)
handleCreateService(id, name) ==
    /\ IF name = ""
       THEN cpResp' = 400 /\ UNCHANGED servicesData
       ELSE /\ cpResp' = 201
            /\ servicesData' = [v \in DOMAIN servicesData \cup {id} |->
                  IF v = id THEN [NodeIDs |-> <<>>, NodePriorities |-> EmptyMap]
                  ELSE servicesData[v]]
    /\ cpReq' = NoRequest /\ post' = NoPost
    /\ NoAggregatorRequest
    /\ NoSweep
    /\ UNCHANGED <<now, connections, data, hbPending, fwdPc, snapshot, seen, ticks, posted,
                   ingested, accepted, tsdb, direct, cfg>>
    /\ UNCHANGED <<nodesData, groupsData, catalogVars, lockVars, agentVars, procVars, errChans>>

----------------------------------------------------------------------------
(* Locks of ControlPlaneServer: the sync.RWMutex of nodes, groups and        *)
(* services. mu.nodes, mu.groups and mu.services hold the goroutines that    *)
(* hold each; inflight holds what sendNodeConfig has still to look up.       *)

\* the goroutines of the control plane that take the locks of the registry
RegistryGoroutines == {"sweeper", "register", "creategroup", "createservice",
                       "getgroups", "config"}

\* what a step of these goroutines leaves alone
RegistryStep == UNCHANGED <<ingestVars, catalogVars, agentVars, procVars, errChans>>

\* ControlPlaneServer.handleNodeRegister: s.nodes.Lock() around the write
ControlPlaneServerHandleNodeRegisterLocked(n, type, token) ==
    /\ type \in {"fixed", "non-fixed"} /\ token # "" => CanLock("nodes")
    /\ ControlPlaneServerHandleNodeRegister(n, type, token)

\* ControlPlaneServer.handleCreateGroup: s.groups.Lock() around the write
handleCreateGroupLocked(id, name) ==
    /\ name # "" => CanLock("groups")
    /\ handleCreateGroup(id, name)

\* ControlPlaneServer.handleCreateService: s.services.Lock() around the write
handleCreateServiceLocked(id, name) ==
    /\ name # "" => CanLock("services")
    /\ handleCreateService(id, name)

\* ControlPlaneServer.handleGetGroups: s.groups.RLock(), defer RUnlock()
handleGetGroupsRLock ==
    /\ "getgroups" \notin mu.groups
    /\ CanRLock("groups")
    /\ mu' = [mu EXCEPT !.groups = @ \cup {"getgroups"}]
    /\ swept' = {}
    /\ UNCHANGED <<inflight, registryVars>>
    /\ RegistryStep

\* handleGetGroups answering while it holds a lock on nodes as well
handleGetGroupsReturnNodes ==
    /\ "getgroups" \in mu.groups
    /\ IF "getgroups" \in mu.nodes
       THEN mu' = [mu EXCEPT !.groups = @ \ {"getgroups"}, !.nodes = @ \ {"getgroups"}]
       ELSE /\ CanRLock("nodes")
            /\ mu' = [mu EXCEPT !.nodes = @ \cup {"getgroups"}]
    /\ swept' = {}
    /\ UNCHANGED <<inflight, registryVars>>
    /\ RegistryStep

\* ControlPlaneServer.handleGetGroups answers and returns: the deferred RUnlock
handleGetGroupsReturn ==
    /\ "getgroups" \in mu.groups
    /\ mu' = [mu EXCEPT !.groups = @ \ {"getgroups"}]
    /\ swept' = {}
    /\ UNCHANGED <<inflight, registryVars>>
    /\ RegistryStep

\* ControlPlaneServer.cleanupNodes: s.nodes.Lock()
cleanupNodesLock ==
    /\ "sweeper" \notin mu.nodes
    /\ CanLock("nodes")
    /\ mu' = [mu EXCEPT !.nodes = @ \cup {"sweeper"}]
    /\ swept' = {}
    /\ UNCHANGED <<inflight, registryVars>>
    /\ RegistryStep

\* ControlPlaneServer.cleanupNodes under its lock, a step of the loop over the
\* expired nodes: removeNodeFromGroup and removeNodeFromService take their lock
\* and return, one node at a time (a node whose removal is done has the field
\* emptied, the node being deleted under the same lock of nodes); with no
\* removal left the expired nodes are gone and the deferred Unlock runs
cleanupNodesLoop ==
    LET expired == { n \in DOMAIN nodesData :
                       now - nodesData[n].LastActive > NodeExpiry }
        grouped == { n \in expired : nodesData[n].GroupID # "" }
        served == { n \in expired : nodesData[n].ServiceID # "" }
    IN  /\ "sweeper" \in mu.nodes
        /\ IF "sweeper" \in mu.groups
           THEN /\ mu' = [mu EXCEPT !.groups = @ \ {"sweeper"}]
                /\ swept' = {}
                /\ UNCHANGED registryVars
           ELSE IF "sweeper" \in mu.services
           THEN /\ mu' = [mu EXCEPT !.services = @ \ {"sweeper"}]
                /\ swept' = {}
                /\ UNCHANGED registryVars
           ELSE IF grouped # {}
           THEN LET n == CHOOSE x \in grouped : TRUE
                IN  /\ CanLock("groups")
                    /\ mu' = [mu EXCEPT !.groups = @ \cup {"sweeper"}]
                    /\ groupsData' = removeNodeFromGroup(groupsData, n, nodesData[n].GroupID)
                    /\ nodesData' = [nodesData EXCEPT ![n].GroupID = ""]
                    /\ swept' = {}
                    /\ UNCHANGED servicesData
           ELSE IF served # {}
           THEN LET n == CHOOSE x \in served : TRUE
                IN  /\ CanLock("services")
                    /\ mu' = [mu EXCEPT !.services = @ \cup {"sweeper"}]
                    /\ servicesData' =
                          removeNodeFromService(servicesData, n, nodesData[n].ServiceID)
                    /\ nodesData' = [nodesData EXCEPT ![n].ServiceID = ""]
                    /\ swept' = {}
                    /\ UNCHANGED groupsData
           ELSE /\ mu' = [mu EXCEPT !.nodes = @ \ {"sweeper"}]
                /\ nodesData' = [n \in DOMAIN nodesData \ expired |-> nodesData[n]]
                /\ swept' = expired
                /\ UNCHANGED <<groupsData, servicesData>>
        /\ UNCHANGED inflight
        /\ RegistryStep

\* ControlPlaneServer.sendNodeConfig: s.nodes.RLock()
sendNodeConfigRLock ==
    /\ "config" \notin mu.nodes \cup mu.groups \cup mu.services
    /\ inflight \cap {"config.group", "config.service"} = {}
    /\ CanRLock("nodes")
    /\ mu' = [mu EXCEPT !.nodes = @ \cup {"config"}]
    /\ swept' = {}
    /\ UNCHANGED <<inflight, registryVars>>
    /\ RegistryStep

\* ControlPlaneServer.sendNodeConfig from the read of the node on: RUnlock of
\* nodes, then RLock and RUnlock of groups where the node has a group, then
\* the same of services
sendNodeConfig(nodeID) ==
    LET found == nodeID \in DOMAIN nodesData
    IN  /\ IF "config" \in mu.nodes
           THEN /\ mu' = [mu EXCEPT !.nodes = @ \ {"config"}]
                /\ inflight' = inflight
                      \cup (IF found /\ nodesData[nodeID].GroupID # ""
                            THEN {"config.group"} ELSE {})
                      \cup (IF found /\ nodesData[nodeID].ServiceID # ""
                            THEN {"config.service"} ELSE {})
           ELSE IF "config" \in mu.groups
           THEN /\ mu' = [mu EXCEPT !.groups = @ \ {"config"}]
                /\ inflight' = inflight \ {"config.group"}
           ELSE IF "config" \in mu.services
           THEN /\ mu' = [mu EXCEPT !.services = @ \ {"config"}]
                /\ inflight' = inflight \ {"config.service"}
           ELSE IF "config.group" \in inflight
           THEN /\ CanRLock("groups")
                /\ mu' = [mu EXCEPT !.groups = @ \cup {"config"}]
                /\ UNCHANGED inflight
           ELSE /\ "config.service" \in inflight
                /\ CanRLock("services")
                /\ mu' = [mu EXCEPT !.services = @ \cup {"config"}]
                /\ UNCHANGED inflight
        /\ swept' = {}
        /\ UNCHANGED registryVars
        /\ RegistryStep

----------------------------------------------------------------------------
(* The agent: cmd/agent/main.go and internal/agent/reporter/reporter.go *)

\* the agent's clock counts half seconds: the default collection interval of
\* 500 ms is one tick of it
maxRegisterRetries == 3
registerRetryInterval == 10      \* 5 * time.Second
RegisterTimeout == 30            \* 15 * time.Second, context and client of one attempt
CollectionInterval == 1          \* flag -interval, 500 ms
MaxCycles == 2                   \* collectAndReport calls looked at

AgentNode == "node-A"            \* node.id
AggToken == "agg-1"              \* aggregator.auth_token

\* the AgentConfig main builds where loadConfig fails: no ensureDefaultConfig
\* has run on it
DefaultAgentConfig ==
    [loaded |-> FALSE, serverFlag |-> FALSE, aggEnabled |-> FALSE, aggURL |-> "",
     aggToken |-> "", aggTimeout |-> 0, srvURL |-> "", retry_count |-> 0,
     retry_interval |-> 0, timeout |-> 0, cmp |-> FALSE, enc |-> FALSE]

\* ensureDefaultConfig: retry count, retry interval (s) and timeout (s)
ensureDefaultConfig(c) ==
    [c EXCEPT !.retry_count = IF @ <= 0 THEN 3 ELSE @,
              !.retry_interval = IF @ <= 0 THEN 1 ELSE @,
              !.timeout = IF @ <= 0 THEN 10 ELSE @]

\* loadConfig for the files looked at, with the flag -server given or not
AgentConfigs ==
    { ensureDefaultConfig(
        [loaded |-> TRUE, serverFlag |-> f, aggEnabled |-> a, aggURL |-> "aggregator-url",
         aggToken |-> t, aggTimeout |-> 0, srvURL |-> "server-url", retry_count |-> rc,
         retry_interval |-> 0, timeout |-> 1, cmp |-> z, enc |-> e]) :
        f \in BOOLEAN, a \in BOOLEAN, t \in {"", AggToken}, rc \in {0, 1},
        z \in BOOLEAN, e \in BOOLEAN }

\* main: the URL the reporter posts to, and the token kept for registration
serverURL(c) ==
    IF c.serverFlag THEN "server-flag"
    ELSE IF c.aggEnabled /\ c.aggURL # "" THEN c.aggURL
    ELSE IF c.srvURL # "" THEN c.srvURL
    ELSE "localhost"
agentToken(c) ==
    IF ~c.serverFlag /\ c.aggEnabled /\ c.aggURL # "" THEN c.aggToken ELSE ""

\* getAppropriateTimeout, in seconds: strings.Contains holds for an empty
\* aggregator.url
getAppropriateTimeout(c) ==
    IF c.aggEnabled /\ (c.aggURL = "" \/ serverURL(c) = c.aggURL) THEN c.aggTimeout
    ELSE c.timeout

\* reporter.NewHTTPReporter as main calls it, no WithAuthToken among the
\* options: the fields of the HTTPReporter, durations in ticks
NewHTTPReporter(c) ==
    [serverURL |-> serverURL(c),
     nodeID |-> AgentNode,
     retryCount |-> IF c.retry_count >= 0 THEN c.retry_count ELSE 3,
     retryInterval |-> IF c.retry_interval > 0 THEN 2 * c.retry_interval ELSE 2,
     timeout |-> IF getAppropriateTimeout(c) > 0 THEN 2 * getAppropriateTimeout(c) ELSE 20,
     authToken |-> "",
     cmp |-> c.cmp, enc |-> c.enc, key |-> AgentKey]

\* processData encrypting first and compressing the ciphertext
HTTPReporterProcessDataEncryptFirst(r, jsonData) ==
    LET encrypted == IF r.enc THEN Encrypt(jsonData, r.key) ELSE jsonData
    IN  IF r.cmp THEN CompressData(encrypted) ELSE encrypted

\* HTTPReporter.processData: compress, then encrypt
HTTPReporterProcessData(r, jsonData) ==
    LET compressed == IF r.cmp THEN CompressData(jsonData) ELSE jsonData
    IN  IF r.enc THEN Encrypt(compressed, r.key) ELSE compressed

\* the request Report builds: URL, X-Node-ID, the bearer of Authorization (""
\* for no header), X-Encrypted, X-Compressed and the body
NoWire == [url |-> "", node |-> "", xNodeID |-> "", bearer |-> "", payload |-> "",
           req |-> [enc |-> FALSE, cmp |-> FALSE, body |-> Garbage]]
MetricsRequest(r, p) ==
    [url |-> r.serverURL, node |-> r.nodeID, xNodeID |-> r.nodeID, bearer |-> r.authToken,
     payload |-> p,
     req |-> [enc |-> r.enc, cmp |-> r.cmp,
              body |-> HTTPReporterProcessData(r, JsonMarshal(Sample(p)))]]

\* time.Format("2006-01-02 15:04:05") of a clock value: its second
Format(t) == t \div 2

\* saveFailedReportData: os.WriteFile to metrics_<timestamp>.json
saveFailedReportData(files, stats, timestamp) ==
    [f \in DOMAIN files \cup {<<"metrics", timestamp>>} |->
        IF f = <<"metrics", timestamp>> THEN stats ELSE files[f]]

\* what one HTTP call of the agent meets: a status (0: transport error) after d
\* ticks, a call that runs into its timeout being a transport error
Outcomes(statuses, timeout) ==
    { [status |-> s, d |-> 0] : s \in statuses \cup {0} } \cup {[status |-> 0, d |-> timeout]}

AgentOff == [pc |-> "off", i |-> 0, clock |-> 0, start |-> 0, cycles |-> 0, stats |-> "",
             collectTime |-> 0, registrationSuccessful |-> FALSE, attempts |-> 0,
             slept |-> 0, lastReport |-> "none", failed |-> 0]

\* main up to the registration: it is attempted where the aggregator is
\* enabled and a token is configured
AgentMain(c, clock) ==
    [AgentOff EXCEPT !.pc = IF c.aggEnabled /\ agentToken(c) # "" THEN "register" ELSE "loop",
                     !.clock = clock,
                     !.registrationSuccessful = ~c.aggEnabled]

\* no step of a server
ServersQuiet ==
    /\ UNCHANGED <<now, connections, data, hbPending, fwdPc, snapshot, seen, ticks, posted,
                   ingested, accepted, tsdb, direct, cfg>>
    /\ NoAggregatorRequest
    /\ NoControlPlaneRequest
    /\ catResp' = NoCatalogResp
    /\ UNCHANGED <<nodes, node_groups, services, reg, tx, issued, ops>>
    /\ UNCHANGED <<lockVars, registryVars, errChans>>
    /\ NoSweep

\* a step of the agent's main loop
ServersIdleStep ==
    /\ ServersQuiet
    /\ UNCHANGED procVars

\* attemptRegistration with one more pass of the loop
attemptRegistrationOnceMore(outcome) ==
    LET wait == IF agent.i > 0 THEN registerRetryInterval ELSE 0
        err == outcome.status # 200
        last == agent.i >= maxRegisterRetries + 1
    IN  /\ agent.pc = "register"
        /\ agent' = [agent EXCEPT !.clock = @ + wait + outcome.d,
                                  !.slept = @ + wait,
                                  !.attempts = @ + 1,
                                  !.i = IF err /\ ~last THEN @ + 1 ELSE @,
                                  !.pc = IF err /\ ~last THEN "register" ELSE "loop",
                                  !.registrationSuccessful = ~err]
        /\ wire' = NoWire
        /\ UNCHANGED <<agentCfg, failed_reports>>
        /\ ServersIdleStep

\* attemptRegistration, one pass of its loop: registerAgentWithAggregator
\* succeeds for status 200 only
attemptRegistration(outcome) ==
    LET wait == IF agent.i > 0 THEN registerRetryInterval ELSE 0
        err == outcome.status # 200
        last == agent.i >= maxRegisterRetries
    IN  /\ agent.pc = "register"
        /\ agent' = [agent EXCEPT !.clock = @ + wait + outcome.d,
                                  !.slept = @ + wait,
                                  !.attempts = @ + 1,
                                  !.i = IF err /\ ~last THEN @ + 1 ELSE @,
                                  !.pc = IF err /\ ~last THEN "register" ELSE "loop",
                                  !.registrationSuccessful = ~err]
        /\ wire' = NoWire
        /\ UNCHANGED <<agentCfg, failed_reports>>
        /\ ServersIdleStep

\* collectAndReport up to reporter.Report, at the first call and then at the
\* ticks of the ticker (one tick is kept while a call runs)
collectAndReport(p, collected) ==
    LET t == IF agent.cycles = 0 \/ agent.clock > agent.start + CollectionInterval
             THEN agent.clock ELSE agent.start + CollectionInterval
    IN  /\ agent.pc = "loop"
        /\ agent.cycles < MaxCycles
        /\ agent' = [agent EXCEPT !.clock = t, !.start = t,
                                  !.cycles = @ + 1,
                                  !.collectTime = Format(t),
                                  !.stats = IF collected THEN p ELSE "",
                                  !.i = 0, !.attempts = 0, !.slept = 0,
                                  !.lastReport = "none",
                                  !.pc = IF collected THEN "report" ELSE "loop"]
        /\ wire' = NoWire
        /\ UNCHANGED <<agentCfg, failed_reports>>
        /\ ServersIdleStep

\* Report ending the process when its last attempt has failed
ReportOrExit(outcome) ==
    LET r == NewHTTPReporter(agentCfg)
        wait == IF agent.i > 0 THEN r.retryInterval ELSE 0
        ok == outcome.status >= 200 /\ outcome.status < 300
        last == agent.i >= r.retryCount
        failed == ~ok /\ last
    IN  /\ agent.pc = "report"
        /\ wire' = MetricsRequest(r, agent.stats)
        /\ agent' = [agent EXCEPT !.clock = @ + wait + outcome.d,
                                  !.slept = @ + wait,
                                  !.attempts = @ + 1,
                                  !.i = IF ok \/ last THEN @ ELSE @ + 1,
                                  !.pc = IF ok THEN "loop" ELSE IF last THEN "exit" ELSE "report",
                                  !.lastReport = IF ok THEN "ok"
                                                 ELSE IF last THEN "error" ELSE "none",
                                  !.failed = IF failed THEN @ + 1 ELSE @]
        /\ failed_reports' =
              IF failed
              THEN saveFailedReportData(failed_reports,
                                        [cycle |-> agent.cycles, payload |-> agent.stats],
                                        agent.collectTime)
              ELSE failed_reports
        /\ UNCHANGED agentCfg
        /\ ServersIdleStep

\* Report with one more pass of its loop
ReportOnceMore(outcome) ==
    LET r == NewHTTPReporter(agentCfg)
        wait == IF agent.i > 0 THEN r.retryInterval ELSE 0
        ok == outcome.status >= 200 /\ outcome.status < 300
        last == agent.i >= r.retryCount + 1
        failed == ~ok /\ last
    IN  /\ agent.pc = "report"
        /\ wire' = MetricsRequest(r, agent.stats)
        /\ agent' = [agent EXCEPT !.clock = @ + wait + outcome.d,
                                  !.slept = @ + wait,
                                  !.attempts = @ + 1,
                                  !.i = IF ok \/ last THEN @ ELSE @ + 1,
                                  !.pc = IF ok \/ last THEN "loop" ELSE "report",
                                  !.lastReport = IF ok THEN "ok"
                                                 ELSE IF last THEN "error" ELSE "none",
                                  !.failed = IF failed THEN @ + 1 ELSE @]
        /\ failed_reports' =
              IF failed
              THEN saveFailedReportData(failed_reports,
                                        [cycle |-> agent.cycles, payload |-> agent.stats],
                                        agent.collectTime)
              ELSE failed_reports
        /\ UNCHANGED agentCfg
        /\ ServersIdleStep

\* HTTPReporter.Report, one pass of its loop, and what collectAndReport does
\* with its result
Report(outcome) ==
    LET r == NewHTTPReporter(agentCfg)
        wait == IF agent.i > 0 THEN r.retryInterval ELSE 0
        ok == outcome.status >= 200 /\ outcome.status < 300
        last == agent.i >= r.retryCount
        failed == ~ok /\ last
    IN  /\ agent.pc = "report"
        /\ wire' = MetricsRequest(r, agent.stats)
        /\ agent' = [agent EXCEPT !.clock = @ + wait + outcome.d,
                                  !.slept = @ + wait,
                                  !.attempts = @ + 1,
                                  !.i = IF ok \/ last THEN @ ELSE @ + 1,
                                  !.pc = IF ok \/ last THEN "loop" ELSE "report",
                                  !.lastReport = IF ok THEN "ok"
                                                 ELSE IF last THEN "error" ELSE "none",
                                  !.failed = IF failed THEN @ + 1 ELSE @]
        /\ failed_reports' =
              IF failed
              THEN saveFailedReportData(failed_reports,
                                        [cycle |-> agent.cycles, payload |-> agent.stats],
                                        agent.collectTime)
              ELSE failed_reports
        /\ UNCHANGED agentCfg
        /\ ServersIdleStep

\* no agent runs
AgentIdle ==
    /\ agentCfg = DefaultAgentConfig
    /\ agent = AgentOff
    /\ wire = NoWire
    /\ failed_reports = <<>>

----------------------------------------------------------------------------
(* The agent's collector: internal/agent/collector *)

\* the counters and the rates are uint64 in the source; the model keeps
\* CounterBits bits of them
CounterBits == 3
Wrap == 2 ^ CounterBits
MaxDt == 2                       \* longest time between two samples
MaxSampleTime == 4               \* no sample is taken later

Interfaces == {"eth0"}

IOCountersStat(sent, recv) == [BytesSent |-> sent, BytesRecv |-> recv]

\* psnet.IOCounters(true): the interfaces present, each with its counters
IOCounters ==
    UNION { [S -> {IOCountersStat(sent, recv) : sent \in 0..(Wrap - 1), recv \in 0..(Wrap - 1)}] :
            S \in SUBSET Interfaces }

InterfaceStats(sent, recv, up, down) ==
    [BytesSent |-> sent, BytesRecv |-> recv, UploadSpeed |-> up, DownloadSpeed |-> down]

\* NewParallelCollector(WithInterfaces(ifaces)): no sample yet
\* (sampled: lastNetworkStats != nil)
NewParallelCollector(ifaces) ==
    [interfaces |-> ifaces, sampled |-> FALSE, lastNetworkStats |-> <<>>, lastCollectTime |-> 0]

\* a - b of two uint64
Sub(a, b) == (a - b + Wrap) % Wrap

\* uint64(float64(cur - prev) / timeDiff), with the difference clamped at zero first
SpeedClamped(cur, prev, timeDiff) == IF cur < prev THEN 0 ELSE (cur - prev) \div timeDiff

\* uint64(float64(cur - prev) / timeDiff)
Speed(cur, prev, timeDiff) == Sub(cur, prev) \div timeDiff

\* the interface statistics collectNetworkInfo writes into stats
NetworkInterfaces(c, netIOCounters, timeDiff) ==
    LET watched == { i \in DOMAIN netIOCounters : c.interfaces = {} \/ i \in c.interfaces }
        exists(i) == i \in DOMAIN c.lastNetworkStats
        rate(i, f) == IF c.sampled /\ exists(i) /\ timeDiff > 0
                      THEN Speed(netIOCounters[i][f], c.lastNetworkStats[i][f], timeDiff)
                      ELSE 0
    IN  IF c.sampled /\ timeDiff <= 0
        THEN <<>>
        ELSE [i \in watched |->
                InterfaceStats(netIOCounters[i].BytesSent, netIOCounters[i].BytesRecv,
                               rate(i, "BytesSent"), rate(i, "BytesRecv"))]

\* Collect, its network part: the rates against the previous sample, which
\* the new sample then replaces
collectNetworkInfo(netIOCounters, timeDiff) ==
    /\ collector.lastCollectTime + timeDiff <= MaxSampleTime
    /\ netStats' = NetworkInterfaces(collector, netIOCounters, timeDiff)
    /\ collector' = [collector EXCEPT !.sampled = TRUE,
                                      !.lastNetworkStats = netIOCounters,
                                      !.lastCollectTime = @ + timeDiff]
    /\ wire' = NoWire
    /\ UNCHANGED <<agentCfg, agent, failed_reports, life, configuration, repoCall>>
    /\ ServersQuiet

----------------------------------------------------------------------------
(* Life of the server processes: root context, workers and Shutdown of the   *)
(* aggregator (internal/aggregator) and of the control plane (internal/server) *)

\* what the control plane is started with: whether loadConfig can read the
\* configuration file, its security.encryption.key, the flag -storage, and
\* storage.influxdb.token of the file (the flag -influx-token is left empty)
ConfigFile(readable, key, type, token) ==
    [readable |-> readable, key |-> key, type |-> type, token |-> token]
NoConfigFile == ConfigFile(FALSE, <<>>, "", "")
ConfigFiles ==
    { ConfigFile(readable, key, type, token) :
        readable \in BOOLEAN, key \in {<<>>, ConfiguredMasterKey},
        type \in {"memory", "influxdb"}, token \in {"", "influx-token"} }

\* both servers as NewServer and Start leave them; autoRemove is
\* discovery.auto_remove_expired, without which cleanupExpiredNodes returns at once
Started(autoRemove) ==
    [cancelled |-> FALSE,       \* aggregator Server.ctx is done
     pcancelled |-> FALSE,      \* DataProcessor.cancel has been called
     listener |-> "open",       \* aggregator httpServer
     sweeper |-> "select",      \* cleanupExpiredConnections: at its select, or exited
     client |-> "open",         \* ControlPlaneClient
     shutdown |-> "no",         \* where Server.Shutdown is
     deadline |-> FALSE,        \* the context main passes to Shutdown (30 s) is done
     result |-> "",
     cpCancelled |-> FALSE,     \* ControlPlaneServer.ctx is done
     cpListener |-> "open",
     cpSweeper |-> IF autoRemove THEN "select" ELSE "exited",
     cpStorage |-> "open",
     cpShutdown |-> "no",
     cpDeadline |-> FALSE,
     cpResult |-> "",
     main |-> "serving",        \* cmd/server main: "off", "serving" or "exited"
     file |-> NoConfigFile,     \* the configuration file main was started with
     securityKey |-> <<>>]      \* serverConfig.Security.Encryption.Key

\* p.ctx is a child of the server's context
ProcessorDone == life.cancelled \/ life.pcancelled

\* a step of the life cycle that no handler, forwarder or sweeper takes part in
LifeStep ==
    /\ wire' = NoWire
    /\ UNCHANGED <<agentCfg, agent, failed_reports, collector, netStats, configuration, repoCall>>
    /\ ServersQuiet

\* cleanupExpiredConnections, case <-ticker.C
cleanupExpiredConnections ==
    /\ life.sweeper = "select"
    /\ cleanupConnections

\* cleanupExpiredConnections whose case <-s.ctx.Done() goes on with the loop
cleanupExpiredConnectionsDoneContinue ==
    /\ life.sweeper = "select"
    /\ life.cancelled
    /\ UNCHANGED life
    /\ LifeStep

\* cleanupExpiredConnections, case <-s.ctx.Done(): return, and wg.Done
cleanupExpiredConnectionsDone ==
    /\ life.sweeper = "select"
    /\ life.cancelled
    /\ life' = [life EXCEPT !.sweeper = "exited"]
    /\ LifeStep

\* processMetrics, case <-ticker.C
processMetrics ==
    /\ fwdPc = "idle"
    /\ ForwardTick

\* processMetrics, case <-p.ctx.Done(): return, and wg.Done
processMetricsDone ==
    /\ fwdPc = "idle"
    /\ ProcessorDone
    /\ fwdPc' = "exited"
    /\ UNCHANGED <<now, connections, data, hbPending, snapshot, seen, ticks, posted, ingested,
                   accepted, tsdb, direct, cfg>>
    /\ NoAggregatorRequest
    /\ NoControlPlaneRequest
    /\ UNCHANGED <<catalogVars, lockVars, registryVars, agentVars, procVars, errChans>>
    /\ NoSweep

\* forwardMetricsToControlPlane under p.ctx: once the context is done the
\* request fails at once
forwardMetricsToControlPlane(n, reached) ==
    /\ reached => ~ProcessorDone /\ life.cpListener = "open"
    /\ ForwardPost(n, reached, FALSE)

\* cleanupExpiredNodes, case <-ticker.C
cleanupExpiredNodes ==
    /\ life.cpSweeper = "select"
    /\ cleanupNodes

\* cleanupExpiredNodes, case <-s.ctx.Done(): return, and wg.Done
cleanupExpiredNodesDone ==
    /\ life.cpSweeper = "select"
    /\ life.cpCancelled
    /\ life' = [life EXCEPT !.cpSweeper = "exited"]
    /\ LifeStep

\* Server.Shutdown, s.cancel(): main has received a signal
ServerShutdownCancel ==
    /\ life.shutdown = "no"
    /\ life' = [life EXCEPT !.cancelled = TRUE, !.shutdown = "http"]
    /\ LifeStep

\* Server.Shutdown, httpServer.Shutdown(httpCtx): the listener is closed, and
\* the call returns when the handlers have or after 15 s
ServerShutdownHTTP ==
    /\ life.shutdown = "http"
    /\ life' = [life EXCEPT !.listener = "closed", !.shutdown = "processor"]
    /\ LifeStep

\* Server.Shutdown, s.processor.Shutdown(): p.cancel()
DataProcessorShutdown ==
    /\ life.shutdown = "processor"
    /\ life' = [life EXCEPT !.pcancelled = TRUE, !.shutdown = "processor.wait"]
    /\ LifeStep

\* DataProcessor.Shutdown, p.wg.Wait(): it returns when processMetrics has
DataProcessorShutdownWait ==
    /\ life.shutdown = "processor.wait"
    /\ fwdPc = "exited"
    /\ life' = [life EXCEPT !.shutdown = "client"]
    /\ LifeStep

\* Server.Shutdown, s.controlPlane.Shutdown()
ControlPlaneClientShutdown ==
    /\ life.shutdown = "client"
    /\ life' = [life EXCEPT !.client = "closed", !.shutdown = "wait"]
    /\ LifeStep

\* Server.Shutdown, the select on s.wg.Wait() and goroutineCtx (10 s, and the
\* deadline of the caller)
ServerShutdownWait(timeout) ==
    /\ life.shutdown = "wait"
    /\ IF timeout THEN TRUE ELSE life.sweeper = "exited"
    /\ life' = [life EXCEPT !.shutdown = "returned",
                            !.result = IF timeout THEN "timeout" ELSE "nil"]
    /\ LifeStep

\* the 30 s of main's shutdownCtx are over
ShutdownDeadline ==
    /\ life.shutdown \notin {"no", "returned"}
    /\ ~life.deadline
    /\ life' = [life EXCEPT !.deadline = TRUE]
    /\ LifeStep

\* the steps of Server.Shutdown
ServerShutdown ==
    \/ ServerShutdownCancel
    \/ ServerShutdownHTTP
    \/ DataProcessorShutdown
    \/ DataProcessorShutdownWait
    \/ ControlPlaneClientShutdown
    \/ \E timeout \in BOOLEAN : ServerShutdownWait(timeout)

\* main of cmd/server: the configuration is loaded, the default one taking the
\* place of a file that cannot be read; log.Fatal where the InfluxDB storage
\* has no token; then the handlers are served
ServerMain ==
    LET serverConfig == IF life.file.readable THEN life.file ELSE NoConfigFile
        fatal == life.file.type = "influxdb" /\ serverConfig.token = ""
    IN  /\ life.main = "off"
        /\ life' = [life EXCEPT !.main = IF fatal THEN "exited" ELSE "serving",
                                !.securityKey = serverConfig.key]
        /\ LifeStep

\* a handler of the control plane answers while main serves
Serving(handler) ==
    /\ life.main = "serving"
    /\ handler

\* ControlPlaneServer.Shutdown up to its select: s.cancel(),
\* httpServer.Shutdown(ctx), influxStorage.Close()
ControlPlaneServerShutdown ==
    /\ life.cpShutdown = "no"
    /\ life' = [life EXCEPT !.cpCancelled = TRUE, !.cpListener = "closed",
                            !.cpStorage = "closed", !.cpShutdown = "wait"]
    /\ LifeStep

\* ControlPlaneServer.Shutdown, the select on s.wg.Wait() and ctx
ControlPlaneServerShutdownWait(timeout) ==
    /\ life.cpShutdown = "wait"
    /\ IF timeout THEN TRUE ELSE life.cpSweeper = "exited"
    /\ life' = [life EXCEPT !.cpShutdown = "returned",
                            !.cpResult = IF timeout THEN "timeout" ELSE "nil"]
    /\ LifeStep

----------------------------------------------------------------------------
(* Column configuration of table nodes: PostgresNodeRepository *)

\* a Go map[string]any by its keys; nil is the nil map
NilConfig == [nil |-> TRUE, keys |-> {}]
Config(keys) == [nil |-> FALSE, keys |-> keys]
ConfigKeys == {"interval", "debug"}
Configurations == {NilConfig} \cup { Config(keys) : keys \in SUBSET ConfigKeys }

SqlNull == [k |-> "sqlnull", v |-> "NULL"]   \* the cell holds database NULL

\* json.Marshal of a map[string]any: the text null for the nil map
JsonMarshalConfig(c) == IF c.nil THEN JsonNull ELSE JsonObject(c.keys)

\* the configuration marshalled whether or not it is nil
ConfigurationJSONUnguarded(c) == JsonMarshalConfig(c)

\* configJSON of Create, Update and UpdateConfiguration: {} for the nil map
ConfigurationJSON(c) == IF ~c.nil THEN JsonMarshalConfig(c) ELSE JsonObject({})

\* GetByID, Scan into configJSON and json.Unmarshal into the nil
\* node.Configuration: NULL scans to no bytes and is skipped, the text null
\* leaves the map nil, an object allocates the map
ScanConfiguration(cell) ==
    IF cell.k = "sqlnull" THEN NilConfig
    ELSE IF cell.k = "jsonnull" THEN NilConfig
    ELSE Config(cell.v)

NoCall == [op |-> "", id |-> "", ok |-> FALSE, configuration |-> NilConfig]
RepositoryCall(op, id, ok, c) == [op |-> op, id |-> id, ok |-> ok, configuration |-> c]

\* a step of the node repository that no handler takes part in
RepositoryStep ==
    /\ wire' = NoWire
    /\ UNCHANGED <<agentCfg, agent, failed_reports, collector, netStats, life>>
    /\ UNCHANGED <<now, connections, data, hbPending, fwdPc, snapshot, seen, ticks, posted,
                   ingested, accepted, tsdb, direct, cfg>>
    /\ NoAggregatorRequest
    /\ NoControlPlaneRequest
    /\ catResp' = NoCatalogResp
    /\ UNCHANGED <<node_groups, services, reg, tx, issued, ops>>
    /\ UNCHANGED <<lockVars, registryVars, errChans>>
    /\ NoSweep

\* PostgresNodeRepository.Create of a node with the configuration c
RepositoryCreate(id, row, c) ==
    LET r == Create(nodes, id, row, node_groups, services)
    IN  /\ nodes' = r.tbl
        /\ configuration' = IF r.ok
                             THEN [n \in DOMAIN configuration \cup {id} |->
                                     IF n = id THEN ConfigurationJSON(c) ELSE configuration[n]]
                             ELSE configuration
        /\ repoCall' = RepositoryCall("Create", id, r.ok, c)
        /\ RepositoryStep

\* PostgresNodeRepository.Update of a node with the configuration c
RepositoryUpdate(id, row, c) ==
    LET r == Update(nodes, id, row, node_groups, services)
    IN  /\ nodes' = r.tbl
        /\ configuration' = IF r.ok
                             THEN [n \in DOMAIN configuration \cup {id} |->
                                     IF n = id THEN ConfigurationJSON(c) ELSE configuration[n]]
                             ELSE configuration
        /\ repoCall' = RepositoryCall("Update", id, r.ok, c)
        /\ RepositoryStep

\* PostgresNodeRepository.UpdateConfiguration: an error where no row is affected
UpdateConfiguration(id, c) ==
    LET ok == id \in DOMAIN nodes
    IN  /\ configuration' = IF ok
                             THEN [n \in DOMAIN configuration \cup {id} |->
                                     IF n = id THEN ConfigurationJSON(c) ELSE configuration[n]]
                             ELSE configuration
        /\ repoCall' = RepositoryCall("UpdateConfiguration", id, ok, c)
        /\ UNCHANGED nodes
        /\ RepositoryStep

\* PostgresNodeRepository.GetByID: the configuration of the node it returns
RepositoryGetByID(id) ==
    LET r == GetByID(nodes, id)
    IN  /\ repoCall' = RepositoryCall("GetByID", id, r.found,
                                      IF r.found /\ id \in DOMAIN configuration
                                      THEN ScanConfiguration(configuration[id])
                                      ELSE NilConfig)
        /\ UNCHANGED <<nodes, configuration>>
        /\ RepositoryStep

\* no collector has sampled, both servers run, no repository call is made
ProcIdle ==
    /\ collector = NewParallelCollector({})
    /\ netStats = <<>>
    /\ life = Started(TRUE)
    /\ configuration = <<>>
    /\ repoCall = NoCall

----------------------------------------------------------------------------
(* Specification of the ingest path *)

CatalogIdle ==
    /\ nodes = EmptyMap
    /\ node_groups = {}
    /\ services = {}
    /\ reg = {}
    /\ tx = {}
    /\ issued = [n \in Nodes |-> ""]
    /\ catResp = NoCatalogResp
    /\ ops = 0

IngestIdle ==
    /\ now = 0
    /\ connections = EmptyMap
    /\ data = EmptyMap
    /\ hbPending = {}
    /\ fwdPc = "idle"
    /\ snapshot = EmptyMap
    /\ seen = [n \in Nodes |-> NoIngest]
    /\ ticks = 0
    /\ post = NoPost
    /\ posted = [n \in Nodes |-> NeverPosted]
    /\ ingested = [n \in Nodes |-> NoIngest]
    /\ accepted = [n \in Nodes |-> FALSE]
    /\ aggResp = NoResp
    /\ tsdb = <<>>
    /\ cpReq = NoRequest
    /\ cpResp = 0
    /\ direct = 0
    /\ mu = [metrics |-> {}, connections |-> {},
             nodes |-> {}, groups |-> {}, services |-> {}]
    /\ inflight = {}
    /\ swept = {}
    /\ errChans = <<>>
    /\ nodesData = EmptyMap
    /\ groupsData = EmptyMap
    /\ servicesData = EmptyMap

SecuredConfig == [aggEnc |-> TRUE, aggCmp |-> TRUE, cpEnc |-> TRUE, cpCmp |-> TRUE]

InitIngest ==
    /\ IngestIdle
    /\ ProcIdle
    /\ AgentIdle
    /\ CatalogIdle
    /\ cfg = SecuredConfig

InitRequests ==
    /\ IngestIdle
    /\ ProcIdle
    /\ AgentIdle
    /\ CatalogIdle
    /\ cfg \in Configs

\* the forwarding path: metrics ingest, the forwarder and the control plane
\* behind it. Register, heartbeat and the session sweeper only touch the
\* session table and are left to SpecSessions, and so is the clock: here it
\* only reaches the stamps.
IngestRequests ==
    { r \in Requests : r.body \in { Plain("p1"), Plain("p2"), Garbage, JsonNull } }

NextIngest ==
    \/ \E n \in Nodes, req \in IngestRequests : handleNodeMetrics(n, req)
    \/ ForwardTick
    \/ \E n \in Nodes, reached \in BOOLEAN, storeErr \in BOOLEAN : ForwardPost(n, reached, storeErr)
    \/ ForwardDone

SpecIngest == InitIngest /\ [][NextIngest]_vars

\* request handling of both tiers, the forwarder not running: metrics requests
\* to the aggregator and metrics requests of any client to the control plane
NextRequests ==
    \/ \E n \in Nodes, req \in Requests : handleNodeMetrics(n, req)
    \/ \E n \in Nodes, bearer \in Bearers, a \in AggregatorIDs, req \in Requests,
          storeErr \in BOOLEAN : DirectPost(n, bearer, a, req, storeErr)

SpecRequests == InitRequests /\ [][NextRequests]_vars

\* the session table: every handler of the aggregator ingest server and the
\* session sweeper; the forwarder does not run.
SessionRequests ==
    { r \in Requests : r.body \in { Plain("p1"), Garbage, JsonNull, Encrypt(Plain("p1"), AgentKey) }
                        \/ (r.body.k = "b64" /\ r.body.v.k = "sealed" /\ ~r.body.v.v.intact) }

NextSessions ==
    \/ \E n \in Nodes, status \in ValidateStatuses : handleNodeRegister(n, status)
    \/ \E n \in Nodes, req \in SessionRequests : handleNodeMetrics(n, req)
    \/ \E n \in Nodes : handleNodeHeartbeat(n)
    \/ \E n \in Nodes : handleNodeHeartbeatRegister(n)
    \/ cleanupConnections
    \/ Tick

SpecSessions == InitIngest /\ [][NextSessions]_vars

----------------------------------------------------------------------------
(* Specification of the aggregator's handlers behind the auth middleware *)

\* the handlers of the aggregator ingest server at one moment of the clock:
\* no session expires
NextMiddleware ==
    \/ \E n \in Nodes, status \in ValidateStatuses : handleNodeRegister(n, status)
    \/ \E n \in Nodes, req \in SessionRequests : handleNodeMetrics(n, req)
    \/ \E n \in Nodes : handleNodeHeartbeat(n)
    \/ \E n \in Nodes : handleNodeHeartbeatRegister(n)

SpecMiddleware == InitIngest /\ [][NextMiddleware]_vars

----------------------------------------------------------------------------
(* Specification of the node catalog *)

InitCatalog ==
    /\ IngestIdle
    /\ ProcIdle
    /\ AgentIdle
    /\ CatalogIdle
    /\ cfg = SecuredConfig

NextCatalog ==
    \/ \E req \in RegisterRequests : HandleRegisterNodeGinGetByID(req)
    \/ \E r \in reg, authToken \in Tokens, salt \in Salts :
          HandleRegisterNodeGinCreate(r, authToken, salt)
    \/ \E r \in reg : HandleRegisterNodeGinUpdate(r)
    \/ \E kind \in Kinds, id \in GroupIDs \cup ServiceIDs :
          /\ id \in (IF kind = "group" THEN GroupIDs ELSE ServiceIDs)
          /\ CreateRecord(kind, id)
    \/ \E kind \in Kinds, id \in GroupIDs \cup ServiceIDs, conn \in Conns :
          /\ id \in (IF kind = "group" THEN GroupIDs ELSE ServiceIDs)
          /\ DeleteBeginTx(kind, id, conn)
    \/ \E t \in tx, failed \in BOOLEAN : DeleteUpdateNodes(t, failed)
    \/ \E t \in tx, failed \in BOOLEAN : DeleteExec(t, failed)
    \/ \E t \in tx, failed \in BOOLEAN : DeleteCommit(t, failed)
    \/ \E id \in Nodes, token \in Tokens \cup {""} : ValidateToken(id, token)

\* the clock stands still here: last_active_at is the only column it reaches
SpecCatalog == InitCatalog /\ [][NextCatalog]_vars

----------------------------------------------------------------------------
(* Specification of the aggregator's locking *)

LockRequests == { r \in Requests : r.body \in { Plain("p1"), Garbage } }

NextLocks ==
    \/ ForwardLock
    \/ ForwardUnlock
    \/ \E n \in Nodes, reached \in BOOLEAN : ForwardPost(n, reached, FALSE)
    \/ ForwardDone
    \/ \E n \in Nodes, req \in LockRequests : handleNodeMetricsLocked(n, req)
    \/ \E n \in Nodes : handleNodeRegisterValidateNode(n)
    \/ \E n \in Nodes, status \in {200, 401} : handleNodeRegisterLocked(n, status)
    \/ handleGetNodesRLock
    \/ handleGetNodesRespond
    \/ handleGetNodesReturn

SpecLocks == InitIngest /\ [][NextLocks]_vars

----------------------------------------------------------------------------
(* Specification of session eviction beside the forwarding path *)

\* the nodes that register and report in this specification
EvictionNodes == {"node-A"}

NextEviction ==
    \/ \E n \in EvictionNodes : handleNodeRegister(n, 200)
    \/ \E n \in EvictionNodes, p \in Payloads :
          handleNodeMetrics(n, [enc |-> FALSE, cmp |-> FALSE, body |-> Plain(p)])
    \/ cleanupConnections
    \/ Tick
    \/ ForwardTick
    \/ \E n \in EvictionNodes : ForwardPost(n, TRUE, FALSE)
    \/ ForwardDone

SpecEviction == InitIngest /\ [][NextEviction]_vars

----------------------------------------------------------------------------
(* Specification of registration end to end *)

NextRegistration ==
    \/ \E req \in RegisterRequests : HandleRegisterNodeGinGetByID(req)
    \/ \E r \in reg, authToken \in Tokens, salt \in Salts :
          HandleRegisterNodeGinCreate(r, authToken, salt)
    \/ \E n \in Nodes, token \in Tokens : handleNodeRegisterAtControlPlane(n, token)

SpecRegistration == InitCatalog /\ [][NextRegistration]_vars

----------------------------------------------------------------------------
(* Specification of the registry of ControlPlaneServer *)

\* the handlers initRouter registers that write the registry, the expiry
\* sweeper and the clock (handleNodeOperations, with update and delete of a
\* node, is registered on no path)
NextRegistry ==
    \/ \E n \in Nodes, type \in NodeTypes, token \in {"", "tok-1"} :
          ControlPlaneServerHandleNodeRegister(n, type, token)
    \/ \E id \in GroupIDs, name \in {"", "web"} : handleCreateGroup(id, name)
    \/ \E id \in ServiceIDs, name \in {"", "web"} : handleCreateService(id, name)
    \/ cleanupNodes
    \/ Tick

SpecRegistry == InitIngest /\ [][NextRegistry]_vars

\* the ticker of cleanupExpiredNodes fires every minute
LiveSpecRegistry == SpecRegistry /\ WF_vars(cleanupNodes)

----------------------------------------------------------------------------
(* Specification of a node's lifecycle in the catalog *)

\* registration and re-registration of nodes, and metrics POSTs that reach the
\* control plane for them
NextLifecycle ==
    \/ \E req \in RegisterRequests : HandleRegisterNodeGinGetByID(req)
    \/ \E r \in reg, authToken \in Tokens, salt \in Salts :
          HandleRegisterNodeGinCreate(r, authToken, salt)
    \/ \E r \in reg : HandleRegisterNodeGinUpdate(r)
    \/ \E n \in Nodes, bearer \in Bearers, a \in AggregatorIDs :
          DirectPost(n, bearer, a, [enc |-> FALSE, cmp |-> FALSE, body |-> Plain("p1")],
                     FALSE)

SpecLifecycle == InitCatalog /\ [][NextLifecycle]_vars

----------------------------------------------------------------------------
(* Specification of registration over a catalog that has rows already *)

\* a row of table nodes written before the server started, with its status
StoredRow(status) ==
    NodeRow("db", HashPassword("tok-1", "salt-1"), Base64(Encrypt(Bytes("tok-1"), MasterKey)),
            status, Null, Null, 0 - 1, 0 - 1)

\* table nodes as the server may find it: empty, or with a row of node-A
InitReRegister ==
    /\ IngestIdle
    /\ ProcIdle
    /\ AgentIdle
    /\ cfg = SecuredConfig
    /\ \E status \in {"", "pending", "active", "inactive"} :
          /\ nodes = IF status = "" THEN EmptyMap
                     ELSE [n \in {"node-A"} |-> StoredRow(status)]
          /\ issued = [n \in Nodes |-> IF n = "node-A" /\ status # "" THEN "tok-1" ELSE ""]
    /\ node_groups = {}
    /\ services = {}
    /\ reg = {}
    /\ tx = {}
    /\ catResp = NoCatalogResp
    /\ ops = 0

NextReRegister ==
    \/ \E req \in RegisterRequests :
          req.name = "db" /\ HandleRegisterNodeGinGetByID(req)
    \/ \E r \in reg, authToken \in Tokens, salt \in Salts :
          HandleRegisterNodeGinCreate(r, authToken, salt)
    \/ \E r \in reg : HandleRegisterNodeGinUpdate(r)
    \/ \E n \in Nodes : HandleGetNodeTokenGin(n)
    \/ Tick

SpecReRegister == InitReRegister /\ [][NextReRegister]_vars

\* the control plane's storage over a sequence of metrics POSTs: what the
\* forwarder of the aggregator sends and what an agent posts directly, a write
\* error of the time-series store arriving within the 100 ms of a call or not
StorageRequests == { [enc |-> FALSE, cmp |-> FALSE, body |-> Plain(p)] : p \in Payloads }

NextStorage ==
    \/ \E req \in StorageRequests : handleNodeMetrics("node-A", req)
    \/ ForwardTick
    \/ \E n \in Nodes, reached \in BOOLEAN, storeErr \in BOOLEAN : ForwardPost(n, reached, storeErr)
    \/ ForwardDone
    \/ \E n \in Nodes, req \in StorageRequests, storeErr \in BOOLEAN :
          DirectPost(n, CPToken, "", req, storeErr)
    \/ \E n \in Nodes, req \in StorageRequests, j \in 1..Len(errChans) :
          DirectPostErrorTaken(n, CPToken, "", req, j)

SpecStorage == InitIngest /\ [][NextStorage]_vars

\* the agent alone: registration, the collection loop and the reports, every
\* HTTP call meeting any status, a refused connection or its timeout
InitAgent ==
    /\ IngestIdle
    /\ ProcIdle
    /\ CatalogIdle
    /\ cfg = SecuredConfig
    /\ agentCfg \in { c \in AgentConfigs : ~c.cmp /\ ~c.enc } \cup {DefaultAgentConfig}
    /\ \E clock \in {0, 1} : agent = AgentMain(agentCfg, clock)
    /\ wire = NoWire
    /\ failed_reports = <<>>

NextAgent ==
    \/ \E outcome \in Outcomes({200, 401}, RegisterTimeout) : attemptRegistration(outcome)
    \/ \E p \in Payloads, collected \in BOOLEAN : collectAndReport(p, collected)
    \/ \E outcome \in Outcomes({200, 500}, NewHTTPReporter(agentCfg).timeout) : Report(outcome)

SpecAgent == InitAgent /\ [][NextAgent]_vars

\* the agent started at a full second without the flag -server, every sample
\* alike; its process keeps running: a sleep ends, and an HTTP call returns by
\* its timeout at the latest
InitRetries ==
    /\ InitAgent
    /\ ~agentCfg.serverFlag
    /\ agent.clock = 0

NextRetries ==
    \/ \E outcome \in Outcomes({200, 401}, RegisterTimeout) : attemptRegistration(outcome)
    \/ \E collected \in BOOLEAN : collectAndReport("p1", collected)
    \/ \E outcome \in Outcomes({200, 500}, NewHTTPReporter(agentCfg).timeout) : Report(outcome)

SpecRetries == InitRetries /\ [][NextRetries]_vars
LiveSpecRetries == SpecRetries /\ WF_vars(NextRetries)

\* the envelope from the agent to the tier it posts to: the agent's reports,
\* and the aggregator or the control plane taking in the request the agent
\* sent, both tiers configured with the agent's flags and key; an HTTP call of
\* the agent is answered or refused at once
InitEnvelope ==
    /\ IngestIdle
    /\ ProcIdle
    /\ CatalogIdle
    /\ agentCfg \in { c \in AgentConfigs : ~c.serverFlag /\ c.aggToken = AggToken
                                             /\ c.retry_count = 1 }
    /\ cfg = [aggEnc |-> agentCfg.enc, aggCmp |-> agentCfg.cmp,
              cpEnc |-> agentCfg.enc, cpCmp |-> agentCfg.cmp]
    /\ agent = AgentMain(agentCfg, 0)
    /\ wire = NoWire
    /\ failed_reports = <<>>

NextEnvelope ==
    \/ \E outcome \in Outcomes({200}, 0) : attemptRegistration(outcome)
    \/ \E p \in Payloads : collectAndReport(p, TRUE)
    \/ \E outcome \in Outcomes({200}, 0) : Report(outcome)
    \/ wire.url = "aggregator-url" /\ handleNodeMetrics(wire.node, wire.req)
    \/ wire.url = "server-url" /\ DirectPost(wire.node, wire.bearer, "", wire.req, FALSE)

SpecEnvelope == InitEnvelope /\ [][NextEnvelope]_vars

----------------------------------------------------------------------------
(* Specification of the collector: samples of the network counters *)

InitCollector ==
    /\ IngestIdle
    /\ AgentIdle
    /\ CatalogIdle
    /\ cfg = SecuredConfig
    /\ collector \in { NewParallelCollector(ifaces) : ifaces \in {{}, {"eth0"}, {"wlan0"}} }
    /\ netStats = <<>>
    /\ configuration = <<>>
    /\ repoCall = NoCall
    /\ life = Started(TRUE)

NextCollector ==
    \E netIOCounters \in IOCounters, timeDiff \in 1..MaxDt :
        collectNetworkInfo(netIOCounters, timeDiff)

SpecCollector == InitCollector /\ [][NextCollector]_vars

----------------------------------------------------------------------------
(* Specification of the servers' shutdown *)

ShutdownNodes == {"node-A"}

InitShutdown ==
    /\ IngestIdle
    /\ AgentIdle
    /\ CatalogIdle
    /\ cfg = SecuredConfig
    /\ collector = NewParallelCollector({})
    /\ netStats = <<>>
    /\ configuration = <<>>
    /\ repoCall = NoCall
    /\ life = Started(TRUE)

\* the goroutines of the aggregator's workers
Workers ==
    \/ cleanupExpiredConnections
    \/ cleanupExpiredConnectionsDone
    \/ processMetrics
    \/ \E n \in ShutdownNodes, reached \in BOOLEAN : forwardMetricsToControlPlane(n, reached)
    \/ ForwardDone
    \/ processMetricsDone

\* the aggregator from its start to the return of Shutdown
NextShutdown ==
    \/ \E n \in ShutdownNodes :
          /\ life.listener = "open"
          /\ handleNodeRegister(n, 200)
    \/ \E n \in ShutdownNodes :
          /\ life.listener = "open"
          /\ handleNodeMetrics(n, [enc |-> FALSE, cmp |-> FALSE, body |-> Plain("p1")])
    \/ Tick
    \/ Workers
    \/ ServerShutdown
    \/ ShutdownDeadline

SpecShutdown == InitShutdown /\ [][NextShutdown]_vars

----------------------------------------------------------------------------------------------------------------------------------------
(* Specification of the configuration column *)

\* the rows the repository is called with: status and foreign keys vary
ConfigurationRows == { StoredRow(status) : status \in {"pending", "active"} }

\* table nodes is empty
InitConfiguration ==
    /\ IngestIdle
    /\ AgentIdle
    /\ CatalogIdle
    /\ cfg = SecuredConfig
    /\ collector = NewParallelCollector({})
    /\ netStats = <<>>
    /\ life = Started(TRUE)
    /\ configuration = <<>>
    /\ repoCall = NoCall

NextConfiguration ==
    \/ \E id \in Nodes, row \in ConfigurationRows, c \in Configurations :
          RepositoryCreate(id, row, c)
    \/ \E id \in Nodes, row \in ConfigurationRows, c \in Configurations :
          RepositoryUpdate(id, row, c)
    \/ \E id \in Nodes, c \in Configurations : UpdateConfiguration(id, c)
    \/ \E id \in Nodes : RepositoryGetByID(id)

SpecConfiguration == InitConfiguration /\ [][NextConfiguration]_vars

----------------------------------------------------------------------------
(* Specification of the control plane's start *)

InitStartup ==
    /\ IngestIdle
    /\ AgentIdle
    /\ CatalogIdle
    /\ cfg = SecuredConfig
    /\ collector = NewParallelCollector({})
    /\ netStats = <<>>
    /\ configuration = <<>>
    /\ repoCall = NoCall
    /\ life \in { [Started(TRUE) EXCEPT !.main = "off", !.file = f] : f \in ConfigFiles }

NextStartup ==
    \/ ServerMain
    \/ \E req \in RegisterRequests :
          req.name = "db" /\ Serving(HandleRegisterNodeGinGetByID(req))
    \/ \E r \in reg, authToken \in Tokens, salt \in Salts :
          Serving(HandleRegisterNodeGinCreate(r, authToken, salt))
    \/ \E r \in reg : Serving(HandleRegisterNodeGinUpdate(r))
    \/ \E n \in Nodes : Serving(HandleGetNodeTokenGin(n))

SpecStartup == InitStartup /\ [][NextStartup]_vars

----------------------------------------------------------------------------
(* Specification of the aggregator that registers a node on its activity *)

NextActivity ==
    \/ \E n \in Nodes : updateNodeActivityLock(n)
    \/ \E n \in Nodes : updateNodeActivityFound(n)
    \/ \E n \in Nodes : updateNodeActivityRegister(n)
    \/ \E n \in Nodes : handleNodeRegisterRegister(n)
    \/ \E n \in Nodes : registerNode(n)
    \/ cleanupConnectionsLocked
    \/ Tick

SpecActivity == InitIngest /\ [][NextActivity]_vars

----------------------------------------------------------------------------
(* Specification of the locks of the registry of ControlPlaneServer *)

NextRegistryLocks ==
    \/ \E n \in Nodes, type \in {"fixed", "other"}, token \in {"", "tok-1"} :
          ControlPlaneServerHandleNodeRegisterLocked(n, type, token)
    \/ \E id \in GroupIDs, name \in {"", "web"} : handleCreateGroupLocked(id, name)
    \/ \E id \in ServiceIDs, name \in {"", "web"} : handleCreateServiceLocked(id, name)
    \/ handleGetGroupsRLock
    \/ handleGetGroupsReturn
    \/ cleanupNodesLock
    \/ cleanupNodesLoop
    \/ sendNodeConfigRLock
    \/ \E n \in Nodes : sendNodeConfig(n)
    \/ Tick

SpecRegistryLocks == InitIngest /\ [][NextRegistryLocks]_vars

----------------
(* Specification of the periodic workers of both servers *)

InitWorkers ==
    /\ IngestIdle
    /\ AgentIdle
    /\ CatalogIdle
    /\ cfg = SecuredConfig
    /\ collector = NewParallelCollector({})
    /\ netStats = <<>>
    /\ configuration = <<>>
    /\ repoCall = NoCall
    /\ life \in { Started(autoRemove) : autoRemove \in BOOLEAN }

\* sessions and registry entries that expire, the three workers, and the two
\* Shutdown calls that cancel their contexts
NextWorkers ==
    \/ \E n \in ShutdownNodes :
          /\ life.listener = "open"
          /\ handleNodeRegister(n, 200)
    \/ \E n \in ShutdownNodes :
          /\ life.cpListener = "open"
          /\ ControlPlaneServerHandleNodeRegister(n, "fixed", "tok-1")
    \/ Tick
    \/ cleanupExpiredConnections
    \/ cleanupExpiredConnectionsDone
    \/ processMetrics
    \/ ForwardDone
    \/ processMetricsDone
    \/ cleanupExpiredNodes
    \/ cleanupExpiredNodesDone
    \/ ServerShutdown
    \/ ControlPlaneServerShutdown
    \/ \E timeout \in BOOLEAN : ControlPlaneServerShutdownWait(timeout)

SpecWorkers == InitWorkers /\ [][NextWorkers]_vars

\* a worker at its select takes the case of the done context in the end (the
\* ticker is ready once per interval only), and a tick it has begun ends; the
\* forwarder is away from its select during a tick
LiveSpecWorkers ==
    /\ SpecWorkers
    /\ WF_vars(cleanupExpiredConnectionsDone)
    /\ SF_vars(processMetricsDone)
    /\ WF_vars(cleanupExpiredNodesDone)
    /\ WF_vars(ForwardDone)

----------------------------------------------------------------------------
(* Properties of the ingest path *)

\* the payload of a POST as it was handed to ProcessMetrics
Ingested(metrics) == [metrics EXCEPT !.processed_at = Absent]

\* C1: at every forwarder tick, what is dispatched upstream for a node is the
\* payload most recently ingested for that node when the tick took its
\* snapshot, and the tick dispatches for the node only once: payloads
\* ingested earlier in the interval are not dispatched.
C1_LatestDispatched ==
    [][post' # NoPost =>
          /\ seen[post'.node].count >= 1
          /\ Ingested(post'.metrics) = seen[post'.node].last
          /\ posted[post'.node].tick # ticks]_vars

\* a tick dispatches the second of two different payloads ingested for a node
C1_Witness ==
    /\ post # NoPost
    /\ seen[post.node].count = 2
    /\ seen[post.node].prev # post.metrics.payload
    /\ Ingested(post.metrics) = seen[post.node].last

\* C2: a session entry has Verified = TRUE if and only if the control plane
\* accepted a registration of the node while the entry existed; an entry made
\* by heartbeat alone, or after rejected registrations only, has Verified = FALSE.
C2_VerifiedIffAccepted ==
    \A n \in DOMAIN connections : connections[n].Verified <=> accepted[n]

\* a rejected registration is answered while one node has a verified session
\* and another an unverified one
C2_Witness ==
    /\ aggResp = Resp("register", FALSE, 401)
    /\ \E n \in DOMAIN connections : connections[n].Verified /\ accepted[n]
    /\ \E n \in DOMAIN connections : ~connections[n].Verified /\ ~accepted[n]

\* C3: a metrics POST to the control plane that does not carry the bearer
\* token shared with the aggregators is answered 401 and writes nothing to the
\* time-series store.
C3_BearerRequired ==
    [][(cpReq' # NoRequest /\ cpReq'.bearer # CPToken)
          => (cpResp' = 401 /\ tsdb' = tsdb)]_vars

\* C8: a metrics request with a malformed body is answered 400 by the tier
\* that receives it, and neither the aggregator buffer nor the time-series
\* store changes in that step.
C8_MalformedRejected ==
    [][/\ (aggResp'.op = "metrics" /\ aggResp'.malformed)
            => (aggResp'.code = 400 /\ data' = data /\ tsdb' = tsdb)
       /\ (cpReq' # NoRequest /\ cpReq'.malformed)
            => (cpResp' = 400 /\ tsdb' = tsdb /\ data' = data)]_vars

\* the aggregator answers 400 to a malformed body while its buffer and the
\* time-series store hold earlier payloads
C8_Witness ==
    /\ aggResp = Resp("metrics", TRUE, 400)
    /\ DOMAIN data # {}
    /\ tsdb # <<>>

\* C9: a metrics request answered 400 for its corrupted envelope changes
\* nothing in the session table.
C9_RejectedLeavesSessions ==
    [][(aggResp'.op = "metrics" /\ aggResp'.malformed /\ aggResp'.code = 400)
          => connections' = connections]_vars

\* C10: a payload taken by a tick and POSTed is not POSTed again by a later
\* tick unless a new payload for its node was ingested in between.
C10_Drained ==
    [][post' # NoPost => posted[post'.node].count # seen[post'.node].count]_vars

\* C12: a node is POSTed at most once in a tick, also when its POST fails
\* (not reached, or answered other than 200); a POST leaves the buffer as it
\* is, and a buffer entry stays, unchanged, until an ingest for its node
\* writes over it.
C12_NoRetryEntryStays ==
    [][/\ post' # NoPost => (posted[post'.node].tick # ticks /\ data' = data)
       /\ \A n \in DOMAIN data :
             /\ n \in DOMAIN data'
             /\ data'[n] # data[n] =>
                   (aggResp' = Resp("metrics", FALSE, 200)
                      /\ ingested'[n].count = ingested[n].count + 1
                      /\ data'[n] = ingested'[n].last)]_vars

\* a POST has failed in the second tick for a node whose POST had failed or
\* succeeded in the first, and its entry is still the one ingested
C12_Witness ==
    /\ post # NoPost
    /\ cpResp # 200
    /\ ticks = 2
    /\ posted[post.node] = [tick |-> 2, count |-> 1]
    /\ data[post.node] = ingested[post.node].last

----------------------------------------------------------------------------
(* Properties of the session table *)

\* C13: a session leaves the table only when the sweeper fires and only if
\* its age, now - LastActive, exceeds the connection timeout; a firing of the
\* sweeper deletes every such session and leaves every other session as it is.
C13_SweepExactlyExpired ==
    [][LET gone == DOMAIN connections \ DOMAIN connections'
       IN  /\ \A n \in gone : now - connections[n].LastActive > ConnectionTimeout
           /\ gone = swept'
           /\ swept' # {} =>
                 \A n \in DOMAIN connections' :
                    /\ n \in DOMAIN connections
                    /\ connections'[n] = connections[n]
                    /\ now - connections[n].LastActive <= ConnectionTimeout]_vars

\* the sweeper has deleted a session and kept one whose age is the timeout
C13_Witness ==
    /\ swept # {}
    /\ \E n \in DOMAIN connections : now - connections[n].LastActive = ConnectionTimeout

\* C17: a metrics or heartbeat request for a node with no session, or with a
\* session that is not verified, is never answered 401, and a well-formed
\* payload is then answered 200 and buffered; a registration answered 401
\* leaves the session table as it is, so this also holds after it.
C17_LenientMiddleware ==
    [][/\ aggResp'.op \in {"metrics", "heartbeat"} => aggResp'.code # 401
       /\ aggResp'.op = "register" /\ aggResp'.code = 401 => connections' = connections
       /\ \A n \in Nodes :
             /\ aggResp'.op = "metrics"
             /\ n \notin DOMAIN connections \/ ~connections[n].Verified
             /\ handleNodeMetrics(n, [enc |-> FALSE, cmp |-> FALSE, body |-> Plain("p1")])
             => /\ aggResp'.code = 200
                /\ n \in DOMAIN data'
                /\ data'[n].payload = "p1"]_vars

\* a payload of a node without a session was answered 200 and is buffered
C17_Witness ==
    /\ aggResp = Resp("metrics", FALSE, 200)
    /\ \E n \in DOMAIN data \ DOMAIN connections :
          ingested[n].count = 1 /\ data[n] = ingested[n].last /\ ~accepted[n]

\* C15: in the register handler every 2xx answer of the control plane to
\* ValidateNode gives the session verified = true and the answer 200, and
\* every other outcome gives the answer 401.
C15_Every2xxVerifies ==
    [][\A n \in Nodes, status \in ValidateStatuses :
          handleNodeRegister(n, status) =>
             IF status \in 200..299
             THEN aggResp'.code = 200 /\ n \in DOMAIN connections'
                     /\ connections'[n].Verified
             ELSE aggResp'.code = 401]_vars

\* C14: a firing of the sweeper changes nothing but the session table: the
\* buffer, the snapshot of a running tick and the time-series store stay as
\* they are; and what a tick dispatches for a node is the payload last
\* ingested for it, whether or not the node has a session.
C14_EvictionLeavesForwarding ==
    [][/\ swept' # {} =>
             /\ data' = data
             /\ snapshot' = snapshot
             /\ tsdb' = tsdb
             /\ <<fwdPc', seen', posted', ingested'>> = <<fwdPc, seen, posted, ingested>>
       /\ fwdPc' = "forwarding" /\ fwdPc = "idle" => DOMAIN snapshot' = DOMAIN data
       /\ post' # NoPost =>
             /\ post'.node \in DOMAIN data
             /\ Ingested(post'.metrics) = seen[post'.node].last
             /\ tsdb' = Append(tsdb, [node |-> post'.node, metrics |-> post'.metrics,
                                      received_at |-> now])]_vars

\* the sweeper has deleted the session of a node whose payload is buffered and
\* waits in the snapshot of the running tick
C14_Witness ==
    \E n \in swept : n \in DOMAIN data /\ n \in DOMAIN snapshot /\ fwdPc = "forwarding"

----------------------------------------------------------------------------
(* Properties of registration end to end *)

\* C16: when an agent registers at the aggregator with a node id and a token
\* the identity check of the control plane accepts, the aggregator answers 200
\* and the session of the node is verified.
C16_RegistrationCompletes ==
    [][\A n \in Nodes, token \in Tokens :
          handleNodeRegisterAtControlPlane(n, token) /\ ValidateNodeToken(nodes, n, token)
             => /\ aggResp'.code = 200
                /\ n \in DOMAIN connections'
                /\ connections'[n].Verified]_vars

----------------------------------------------------------------------------
(* Properties of the registry of ControlPlaneServer *)

Silent(n) == n \in DOMAIN nodesData /\ now - nodesData[n].LastActive > NodeExpiry

----------------------------------------------------------------------------
(* Properties of a node's lifecycle *)

\* C21: a first registration creates the node with status pending and
\* registered_at = last_active_at = now; a re-registration sets last_active_at
\* to now, raises the status inactive to pending and leaves every other
\* status, and registered_at, as they are.
C21_RegistrationStatus ==
    [][LET n == catResp'.node
       IN  /\ catResp'.op = "register" /\ catResp'.ok =>
                 /\ n \notin DOMAIN nodes
                 /\ nodes'[n].status = "pending"
                 /\ nodes'[n].registered_at = now /\ nodes'[n].last_active_at = now
           /\ catResp'.op = "update" /\ catResp'.ok =>
                 /\ nodes'[n].status =
                       IF nodes[n].status = "inactive" THEN "pending" ELSE nodes[n].status
                 /\ nodes'[n].last_active_at = now
                 /\ nodes'[n].registered_at = nodes[n].registered_at]_vars

\* a re-registration has raised a stored inactive node to pending at a later
\* time
C21_Witness ==
    /\ catResp.op = "update" /\ catResp.ok
    /\ nodes[catResp.node].status = "pending"
    /\ nodes[catResp.node].registered_at < 0
    /\ nodes[catResp.node].last_active_at = now /\ now > 0

\* C22: for every node of the catalog, Base64-decoding the stored encrypted
\* token and decrypting it under the master key succeeds and yields a token
\* that the node's auth_token_hash verifies, the one issued to the node.
C22_StoredTokenRecoverable ==
    \A n \in DOMAIN nodes :
       LET t == RecoverToken(nodes[n])
       IN  /\ t.code = 200
           /\ ComparePasswordAndHash(t.auth_token, nodes[n].auth_token_hash)
           /\ t.auth_token = issued[n]

\* a node registered while the server runs has been re-registered at a later
\* time and its token is recovered
C22_Witness ==
    /\ catResp.op = "update" /\ catResp.ok
    /\ nodes[catResp.node].registered_at >= 0
    /\ nodes[catResp.node].last_active_at > nodes[catResp.node].registered_at
    /\ RecoverToken(nodes[catResp.node]).auth_token = issued[catResp.node]

\* C23: the registration endpoint answers with the cleartext token once for a
\* node, in the answer to the registration that creates its row, and no answer
\* to a later registration of the node carries a token; the recovery endpoint
\* answers with the node's token whenever the row holds its ciphertext
C23_TokenInResponses ==
    [][LET n == catResp'.node
       IN  /\ (catResp'.op = "register" /\ catResp'.ok) =>
                 (n \notin DOMAIN nodes /\ n \in DOMAIN nodes'
                  /\ catResp'.token # "" /\ catResp'.token = issued'[n])
           /\ (catResp'.op = "register" /\ ~catResp'.ok) => catResp'.token = ""
           /\ catResp'.op = "update" => (n \in DOMAIN nodes /\ catResp'.token = "")
           /\ catResp'.op = "token" =>
                 /\ catResp'.ok <=> n \in DOMAIN nodes
                 /\ catResp'.token = (IF n \in DOMAIN nodes THEN issued[n] ELSE "")
                 /\ n \in DOMAIN nodes => issued[n] # ""
           /\ DOMAIN nodes \subseteq DOMAIN nodes']_vars

\* C23 as stated: an answer carries a cleartext token only when it is the answer
\* to the registration that creates the node's row
C23_TokenOnlyAtIssuance ==
    [][catResp'.token # "" =>
          (catResp'.op = "register" /\ catResp'.node \notin DOMAIN nodes)]_vars

\* a node registered in this run, registered again, and its token recovered
C23_Witness ==
    /\ catResp.op = "token" /\ catResp.ok
    /\ catResp.token = issued[catResp.node]
    /\ nodes[catResp.node].registered_at >= 0
    /\ nodes[catResp.node].last_active_at > nodes[catResp.node].registered_at

\* C24: for every payload and every subset of {compress, encrypt}, the body the
\* agent sends is the serialized payload, compressed first and encrypted last,
\* and the aggregator and the control plane, configured with the same flags
\* and key, decrypt first and decompress last and get the payload back
C24_EnvelopeRoundTrip ==
    [][LET sent == JsonMarshal(Sample(wire.payload))
           body == wire'.req.body
       IN  /\ wire'.node # "" =>
                 /\ body.k = (IF wire'.req.enc THEN "b64"
                              ELSE IF wire'.req.cmp THEN "gzip" ELSE "json")
                 /\ (wire'.req.enc /\ wire'.req.cmp) => body.v.v.d.k = "gzip"
                 /\ wire'.req.enc = agentCfg.enc /\ wire'.req.cmp = agentCfg.cmp
           /\ aggResp'.op = "metrics" =>
                 /\ processIncomingData(cfg, wire.req) = sent
                 /\ aggResp'.code = 200
                 /\ data'[wire.node].payload = wire.payload
           /\ cpReq'.node # "" =>
                 /\ processData(cfg, wire.req) = sent
                 /\ cpResp' = 200
                 /\ tsdb'[Len(tsdb')].metrics = Sample(wire.payload)]_vars

\* both tiers have taken in what an agent sent compressed and encrypted
C24_Witness ==
    /\ wire.req.enc /\ wire.req.cmp
    /\ \/ aggResp.op = "metrics" /\ aggResp.code = 200
          /\ data[wire.node].payload = wire.payload
       \/ cpReq.node = wire.node /\ cpResp = 200
          /\ tsdb[Len(tsdb)].metrics = Sample(wire.payload)

\* C25: every metrics POST whose points the control plane queues is answered
\* 500 if a write error of the time-series store arrives within the 100 ms
\* that follow the flush, and 200 otherwise, whichever call of a sequence it is
C25_QueueErrorMeans500 ==
    [][(cpReq'.node # "" /\ Len(tsdb') > Len(tsdb)) =>
          LET observed == \/ cpResp' = 500
                          \/ \E j \in 1..Len(errChans) : errChans'[j] > errChans[j]
          IN  cpResp' = IF observed THEN 500 ELSE 200]_vars

\* C26: the registration handshake is attempted once and retried at most 3
\* times, with a wait of 5 s before every retry and none before the first
\* attempt; it stops at the first attempt that succeeds, gives up only after the
\* last retry has failed, and always comes to an end
C26_RegistrationRetries ==
    /\ [](agent.attempts <= maxRegisterRetries + 1 \/ agent.pc # "register")
    /\ [](agent.pc = "register" => (agent.attempts <= maxRegisterRetries
                                     /\ ~agent.registrationSuccessful))
    /\ [][agent.pc = "register" /\ agent' # agent =>
             /\ agent'.attempts = agent.attempts + 1
             /\ agent'.attempts <= maxRegisterRetries + 1
             /\ agent'.clock - agent.clock >=
                    (IF agent.attempts > 0 THEN registerRetryInterval ELSE 0)
             /\ agent'.slept = registerRetryInterval * agent.attempts
             /\ agent'.registrationSuccessful => agent'.pc = "loop"
             /\ (agent'.pc = "loop" /\ ~agent'.registrationSuccessful) =>
                    agent'.attempts = maxRegisterRetries + 1]_vars
    /\ (agent.pc = "register") ~> (agent.pc = "loop")

\* the handshake has failed four times, 15 s having been waited in between
C26_Witness ==
    /\ agent.pc = "loop" /\ agent.cycles = 0
    /\ agent.attempts = maxRegisterRetries + 1
    /\ ~agent.registrationSuccessful
    /\ agent.slept = 3 * registerRetryInterval

\* C27: the agent's process never ends on a transport failure: when the
\* registration has failed at the last retry the collection loop starts all the
\* same, and when a report has failed at its last attempt the loop goes on to
\* the next collection
C27_FailuresDoNotStopAgent ==
    /\ [](agent.pc \in {"register", "loop", "report"})
    /\ [][agent'.failed > agent.failed => agent'.pc = "loop"]_vars
    /\ (agent.pc = "register") ~> (agent.cycles > 0)
    /\ \A k \in 1..(MaxCycles - 1) :
          (agent.cycles = k /\ agent.lastReport = "error") ~> (agent.cycles > k)

\* the registration has failed at every attempt, the first report has failed at
\* its last attempt, and the agent is in its second report
C27_Witness ==
    /\ agentCfg.aggEnabled /\ agentToken(agentCfg) # ""
    /\ ~agent.registrationSuccessful
    /\ agent.failed = 1
    /\ agent.cycles = 2
    /\ agent.pc = "report"

\* C28: a report is sent once and again at most retry_count times, every
\* attempt over within the per-call timeout and every retry after the retry
\* interval; Report succeeds at the first attempt answered 2xx, returns an
\* error only when the last of the retry_count + 1 attempts has failed, and
\* always returns
C28_ReportRetries ==
    /\ [](agent.pc = "report" => agent.attempts <= agentCfg.retry_count)
    /\ [][agent.pc = "report" /\ agent' # agent =>
             LET r == NewHTTPReporter(agentCfg)
                 wait == IF agent.attempts > 0 THEN r.retryInterval ELSE 0
             IN  /\ agent'.attempts = agent.attempts + 1
                 /\ wire'.node # ""
                 /\ agent'.clock - agent.clock >= wait
                 /\ agent'.clock - agent.clock <= wait + r.timeout
                 /\ agent'.lastReport = "ok" => agent'.pc = "loop"
                 /\ agent'.lastReport = "error" <=>
                       (agent'.pc = "loop" /\ agent'.failed = agent.failed + 1)
                 /\ agent'.lastReport = "error" =>
                       agent'.attempts = agentCfg.retry_count + 1
                 /\ agent'.pc = "report" => agent'.lastReport = "none"]_vars
    /\ (agent.pc = "report") ~> (agent.pc = "loop")

\* a report has succeeded at its last attempt, three retries having failed
C28_Witness ==
    /\ agentCfg.retry_count = 3
    /\ agent.attempts = 4
    /\ agent.lastReport = "ok"
    /\ agent.pc = "loop"

\* C29: every report that has failed at its last attempt is kept in the spill
\* directory in a file named by the time of its sample, one file for each
\* failure: the files are as many as the failures, and each holds the sample
\* taken at the second its name gives
C29_OneFilePerFailure ==
    /\ Cardinality(DOMAIN failed_reports) = agent.failed
    /\ \A f \in DOMAIN failed_reports : f[1] = "metrics"

\* C30: every metrics POST of the agent carries X-Node-ID with the agent's node
\* id, and where it goes to the aggregator it carries the aggregator's token as
\* the bearer of Authorization
C30_MetricsHeaders ==
    wire.node # "" =>
        /\ wire.xNodeID = AgentNode
        /\ (wire.url = agentCfg.aggURL /\ agentCfg.aggToken # "") =>
               wire.bearer = agentCfg.aggToken

\* C31: the byte rates of a sample are (cur - prev) / dt clamped at zero: 0 for
\* an interface without a previous sample and 0 where the counter decreased
C31_RateClamped ==
    [][collector' # collector =>
        \A i \in DOMAIN netStats' :
            LET cur == collector'.lastNetworkStats[i]
                timeDiff == collector'.lastCollectTime - collector.lastCollectTime
                first == ~collector.sampled \/ i \notin DOMAIN collector.lastNetworkStats
                rate(f) == IF first THEN 0
                           ELSE SpeedClamped(cur[f], collector.lastNetworkStats[i][f], timeDiff)
            IN  /\ netStats'[i].UploadSpeed = rate("BytesSent")
                /\ netStats'[i].DownloadSpeed = rate("BytesRecv")]_vars

\* C32: the session sweeper, the forwarder loop and the node-expiry sweeper
\* exit once their root context is cancelled, and a worker that has seen the
\* cancellation starts no sweep and no forward tick
C32_WorkersObserveContext ==
    /\ [][/\ life.sweeper = "exited" =>
                life'.sweeper = "exited" /\ DOMAIN connections \subseteq DOMAIN connections'
          /\ fwdPc = "exited" => fwdPc' = "exited" /\ ticks' = ticks
          /\ life.cpSweeper = "exited" =>
                life'.cpSweeper = "exited" /\ DOMAIN nodesData \subseteq DOMAIN nodesData']_vars
    /\ life.cancelled ~> (life.sweeper = "exited" /\ fwdPc = "exited")
    /\ life.cpCancelled ~> (life.cpSweeper = "exited")

\* all three workers have exited on cancellation while a session and a registry
\* entry are past their expiry and the forwarder has ticked before
C32_Witness ==
    /\ life.cancelled /\ life.sweeper = "exited" /\ fwdPc = "exited"
    /\ life.cpCancelled /\ life.cpSweeper = "exited"
    /\ ticks > 0
    /\ \E n \in DOMAIN connections : now - connections[n].LastActive > ConnectionTimeout
    /\ \E n \in DOMAIN nodesData : now - nodesData[n].LastActive > NodeExpiry

\* C33: the aggregator's Shutdown cancels the root context, then closes the
\* listener, then drains the workers, and it returns: once the deadline has
\* passed it is never left waiting for a worker, the forwarder in the middle of
\* a tick included, but can go on by itself
C33_ShutdownReturns ==
    /\ life.listener = "closed" => life.cancelled
    /\ life.pcancelled => life.listener = "closed"
    /\ life.result = "nil" => life.sweeper = "exited" /\ fwdPc = "exited"
    /\ life.deadline /\ life.shutdown \notin {"no", "returned"} => ENABLED ServerShutdown

\* C34: whatever Create, Update and UpdateConfiguration have written, the nil
\* map included, the configuration cell of a node holds a JSON object, never
\* NULL nor the text null; GetByID reads it as a map that is not nil, and as
\* the empty map after a write of no key
C34_ConfigurationIsObject ==
    /\ DOMAIN configuration = DOMAIN nodes
    /\ \A id \in DOMAIN configuration :
          /\ configuration[id].k = "json"
          /\ ~ScanConfiguration(configuration[id]).nil
    /\ repoCall.op \in {"Create", "Update", "UpdateConfiguration"} /\ repoCall.ok =>
          ScanConfiguration(configuration[repoCall.id]) = Config(repoCall.configuration.keys)
    /\ repoCall.op = "GetByID" /\ repoCall.ok =>
          /\ ~repoCall.configuration.nil
          /\ JsonObject(repoCall.configuration.keys) = configuration[repoCall.id]

\* UpdateConfiguration has written the nil map for node-A while the cell of
\* another node holds keys
C34_Witness ==
    /\ repoCall = RepositoryCall("UpdateConfiguration", "node-A", TRUE, NilConfig)
    /\ configuration["node-A"] = JsonObject({})
    /\ \E n \in DOMAIN configuration : configuration[n] = JsonObject(ConfigKeys)

\* C35: a control plane whose configuration holds no master key exits at its
\* start: it never serves, and no registration or token recovery is answered
\* without a configured key
C35_NoServiceWithoutMasterKey ==
    /\ life.main = "serving" => life.securityKey # <<>>
    /\ catResp.op \in {"register", "update", "token"} => life.securityKey # <<>>

\* C36: a session that is verified stays verified until the sweeper deletes
\* it: no heartbeat, metrics post or rejected registration of the node makes
\* the flag false or removes the session
C36_VerifiedKept ==
    [][\A n \in Nodes :
          (n \in DOMAIN connections /\ connections[n].Verified /\ n \notin swept')
              => (n \in DOMAIN connections' /\ connections'[n].Verified)]_vars

\* a heartbeat is answered for the one node that has a session, a verified
\* one, and the session is still verified
C36_Witness ==
    /\ aggResp.op = "heartbeat"
    /\ aggResp.code = 200
    /\ \E n \in Nodes :
          /\ accepted[n]
          /\ n \in DOMAIN connections
          /\ connections[n].Verified
          /\ connections[n].Status = "active"
          /\ \A m \in Nodes \ {n} : m \notin DOMAIN connections

\* C37: the payloads of a node are dispatched upstream in the order of their
\* ingest: every dispatch for the node carries the payload that was the node's
\* latest ingest when the snapshot was taken, and the ingest a dispatch covers
\* is never an earlier one than the ingest the dispatch before it covered
C37_DispatchInIngestOrder ==
    [][\A n \in Nodes :
          (post'.node = n /\ fwdPc = "forwarding")
              => /\ posted'[n].count >= posted[n].count
                 /\ posted'[n].count = seen[n].count
                 /\ post'.metrics.payload = seen[n].last.payload
                 /\ post'.metrics.aggregator_received_at
                        = seen[n].last.aggregator_received_at]_vars

\* a payload of the snapshot is dispatched in a second tick while the node has
\* already ingested a newer one
C37_Witness ==
    /\ fwdPc = "forwarding"
    /\ ticks >= 2
    /\ \E n \in Nodes :
          /\ post.node = n
          /\ posted[n].tick = ticks
          /\ seen[n].count >= 1
          /\ ingested[n].count > seen[n].count

\* C38: a heartbeat or metrics post for a node without a session is answered
\* 200 and leaves a session: the handler that registers the node is never
\* held up at the lock of the session table by a lock its own goroutine holds
C38_AutoRegisterNeverBlocks ==
    \A n \in Nodes : n \in hbPending => n \notin mu.connections

\* C39: the sweeper and the handlers of the in-memory control plane take the
\* lock of nodes before that of groups or services: no goroutine acquires the
\* lock of nodes while it holds the lock of groups or of services, so where
\* one goroutine holds both, nodes was acquired first
C39_NodesLockFirst ==
    [][\A g \in RegistryGoroutines :
          (g \notin mu.nodes /\ g \in mu'.nodes)
              => (g \notin mu.groups /\ g \notin mu.services)]_vars

\* the sweeper holds the lock of nodes, a node to delete before it, while a
\* handler holds the lock of groups
C39_Witness ==
    /\ "sweeper" \in mu.nodes
    /\ "getgroups" \in mu.groups
    /\ \E n \in DOMAIN nodesData : now - nodesData[n].LastActive > NodeExpiry

\* C40: the goroutines that listen on the error channel of the time-series
\* writer stay bounded however many StoreMetrics calls are made: the listener
\* of a call is gone once the call has returned, so at most the listener of
\* the call under way is alive, and no listener of an earlier call takes an
\* error that arrives during a later call
C40_ListenersBounded ==
    [][/\ Len(errChans') <= 1
       /\ \A j \in 1..Len(errChans) : errChans'[j] = errChans[j]]_vars

\* C20: a metrics POST with the bearer token that the control plane answers
\* 200, for a node of the catalog with status pending, leaves the node with
\* status active.
C20_PendingBecomesActive ==
    [][/\ cpResp' = 200
       /\ cpReq'.bearer = CPToken
       /\ cpReq'.node \in DOMAIN nodes
       /\ nodes[cpReq'.node].status = "pending"
       => nodes'[cpReq'.node].status = "active"]_vars

----------------------------------------------------------------------------
(* Properties of the aggregator's locking *)

\* C11: no goroutine of the aggregator holds the buffer lock or the
\* session-table lock while it is in network I/O.
C11_NoLockDuringIO ==
    \A g \in Goroutines : InNetworkIO(g) => ~Holds(g)

----------------------------------------------------------------------------
(* Properties of the node catalog *)

\* C4: for every node id and every string t, ValidateNodeToken(id, t) is true
\* if and only if the node is in the catalog and t is the cleartext token most
\* recently issued for it; for an unknown node it is false.
C4_ValidateIffIssued ==
    /\ \A id \in Nodes, t \in Tokens \cup {"", "tok-0"} :
          ValidateNodeToken(nodes, id, t) <=> (id \in DOMAIN nodes /\ t = issued[id])
    /\ catResp.op = "validate" =>
          (catResp.ok <=> (catResp.node \in DOMAIN nodes
                            /\ catResp.token = issued[catResp.node]))

\* a token validates for its node while another node holds a different token
C4_Witness ==
    /\ catResp.op = "validate"
    /\ catResp.ok
    /\ \E m \in DOMAIN nodes : m # catResp.node /\ issued[m] # catResp.token

\* C5: a Delete of a group or service nulls the references and removes the
\* record in one step of the committed state: whenever the record goes, no
\* node references it afterwards; no step of a Delete nulls a reference
\* without removing the record it referenced; and a Delete that fails changes
\* nothing. (A registration may write NULL over a reference: it wrote back the
\* row it had read.)
C5_AtomicDelete ==
    [][/\ \A k \in Kinds, id \in GroupIDs \cup ServiceIDs :
            LET before == IF k = "group" THEN id \in node_groups ELSE id \in services
                after == IF k = "group" THEN id \in node_groups' ELSE id \in services'
            IN  /\ (before /\ ~after) =>
                      \A n \in DOMAIN nodes' : Ref(nodes'[n], k) # id
                /\ \A n \in DOMAIN nodes :
                      (Ref(nodes[n], k) = id /\ Ref(nodes'[n], k) = Null)
                          => (catResp'.op = "update" \/ (before /\ ~after))
       /\ (catResp'.op = "delete" /\ ~catResp'.ok) =>
             (nodes' = nodes /\ node_groups' = node_groups /\ services' = services)]_vars

\* the Delete of group g1 commits and has nulled the group of a node that
\* keeps its service
C5_Witness ==
    /\ catResp = CatalogResp("delete", TRUE, "g1", "", "")
    /\ "g1" \notin node_groups
    /\ \E n \in DOMAIN nodes :
          nodes[n].name = "web" /\ nodes[n].group_id = Null /\ nodes[n].service_id = "s1"

\* C6: in every committed catalog state every node with a non-null group_id
\* references an existing group and every node with a non-null service_id an
\* existing service.
C6_ReferencesExist ==
    \A n \in DOMAIN nodes :
        /\ nodes[n].group_id # Null => nodes[n].group_id \in node_groups
        /\ nodes[n].service_id # Null => nodes[n].service_id \in services

\* an update that would bring back the reference to a deleted group is refused
C6_Witness ==
    /\ catResp.op = "update"
    /\ ~catResp.ok
    /\ node_groups = {}
    /\ nodes[catResp.node].group_id = Null

\* C7: a second registration of a registered node_id writes the request's
\* fields, leaves auth_token_hash as it was, issues no token, and the token
\* issued at first still validates.
C7_ReRegisterKeepsHash ==
    [][(catResp'.op = "update" /\ catResp'.ok) =>
          LET n == catResp'.node
          IN  /\ n \in DOMAIN nodes
              /\ nodes'[n].auth_token_hash = nodes[n].auth_token_hash
              /\ nodes'[n].name = catResp'.name
              /\ catResp'.token = ""
              /\ issued' = issued
              /\ ValidateNodeToken(nodes', n, issued[n])]_vars

\* a node registered as "web" with a service has been registered again as "db"
C7_Witness ==
    /\ catResp.op = "update"
    /\ catResp.ok
    /\ nodes[catResp.node].name = "db"
    /\ nodes[catResp.node].service_id = "s1"
    /\ ValidateNodeToken(nodes, catResp.node, issued[catResp.node])

====
